---- MODULE Spec2Model ----
(***************************************************************************)
(* Model of the Xaya X core: the Chainstate block tree                     *)
(* (src/src/chainstate.cpp), the Sync worker (src/src/sync.cpp), the       *)
(* Controller's notification path (src/src/controller.cpp), the ZMQ        *)
(* publisher (src/src/zmqpub.cpp) and the pending gate                     *)
(* (src/src/pending.cpp).                                                  *)
(***************************************************************************)
EXTENDS Integers, Sequences, FiniteSets, TLC

(***************************************************************************)
(* Bounds of the model.                                                    *)
(***************************************************************************)

\* Number of blocks of the block universe.
NumBlocks == 7

\* Highest branch number the store may hand out (GetFreeBranchNumber grows
\* without bound in the code).
MaxBranch == 3

(***************************************************************************)
(* The block universe.  A block is identified by its hash; its parent and  *)
(* height are fixed attributes (BlockData::parent, BlockData::height).     *)
(* The universe is a tree of three chains below the genesis block 1,       *)
(* numbered so that a small prefix already forks at two heights:           *)
(*                                                                         *)
(*     1 - 2 - 5 - 8 ...                                                   *)
(*      \    \ 7 - 10 ...                                                  *)
(*       - 3 - 4 - 6 - 9 ...                                               *)
(***************************************************************************)

\* The empty string, used as "no old tip".
EmptyHash == -1

\* The parent hash of the genesis block, which is never a block itself.
Pregenesis == 0

Hashes == 1 .. NumBlocks

ParentOf == << Pregenesis, 1, 1, 3, 2, 4, 2, 5, 6, 7 >>

Parent(h) == IF h \in DOMAIN ParentOf THEN ParentOf[h] ELSE h - 3

RECURSIVE HeightOf(_)
HeightOf(h) == IF h <= 1 THEN 0 ELSE 1 + HeightOf(Parent(h))

HeightTable == [h \in Hashes |-> HeightOf(h)]

Height(h) == HeightTable[h]

MaxHeight == CHOOSE m \in { HeightOf(h) : h \in Hashes } :
  \A h \in Hashes : HeightOf(h) <= m

VARIABLES
  \* Chainstate
  blocks,           \* the `blocks` table: stored hash |-> branch number
  last,             \* the last Chainstate call made and what it returned
  \* Controller and upstream
  sanityChecks,     \* Controller::sanityChecks
  maxReorgDepth,    \* Controller::maxReorgDepth, also Sync::pruningDepth
  baseTip,          \* the tip of the upstream node's main chain
  tipChanges,       \* how often the upstream tip has changed
  events,           \* callbacks the upstream has raised but not yet delivered
  nextBatch,        \* identifier of the next batch of pending moves
  \* Sync
  numBlocks,        \* Sync::numBlocks
  nextStartHeight,  \* Sync::nextStartHeight
  pc,               \* where the worker thread is inside UpdateStep
  step,             \* the locals of the running UpdateStep
  moreSteps,        \* what the last UpdateStep returned
  aborted,          \* message of the failed CHECK that ended the process
  mutChain,         \* the thread holding Sync::mutChain, or ""
  \* PendingManager
  chainstateTip,    \* PendingManager::chainstateTip
  notificationTip,  \* PendingManager::notificationTip
  pendingsQueue,    \* PendingManager::pendingsQueue
  \* What the subscriber of the one tracked game has seen
  pushed,           \* the last PushZmqBlocks call and its messages
  walk,             \* the block the subscriber is at after those messages
  attachSent,       \* blocks for which a block-attach has been published
  pendingSent,      \* batches of pending moves that have been published
  batchInfo,        \* per delivered batch, the tips at its arrival
  \* ZmqPub
  games,            \* ZmqPub::games: game |-> tracking depth (0: not tracked)
  nextSeq,          \* ZmqPub::nextSeq: topic |-> next sequence number
  zmqMut,           \* the thread holding ZmqPub::mut, or 0
  zmqThread,        \* per thread, where it is inside a ZmqPub call
  zmqCalls,         \* the number of Send calls made
  wire,             \* per topic, the sequence numbers sent, with the sender
  trackBalance,     \* per game, TrackGame calls minus UntrackGame calls
  \* Chainstate::UpdateBatch and the savepoints of the database
  dbRows,           \* the rows written and visible
  savepoints,       \* the savepoint stack: the rows at each SAVEPOINT
  batchState,       \* per UpdateBatch object, where it is in its life
  writeScope,       \* per row written, the batches alive at the write
  nestedCommits,    \* every Commit so far was made on the innermost
                    \* batch not yet committed
  \* PendingManager under calls of its interface
  gateLog,          \* the last call, the batches arrived, published and
                    \* dropped so far
  \* RpcServer
  rpcReply,         \* the request counter, the last game_sendupdates call,
                    \* its ZMQ messages and its JSON result
  rpcThreads,       \* RpcServer::mut and requests under concurrent calls,
                    \* each call's position and the block messages sent
  \* BlockCacheChain
  cache,            \* the storage, minDepth, lastTipHeight, the last call
                    \* with the upstream calls it made, and the upstream
                    \* blocks that have been minDepth deep
  \* The upstream connection
  baseDown,         \* whether the upstream's pull calls throw, how often
                    \* they have started to, and the worker's last catch
  \* The threads of the process and their mutexes
  updater,          \* Sync::updater next to Sync::~Sync: where each is,
                    \* Sync::mut, shouldStop and the state of Sync::cv
  threads,          \* where each thread of the Controller is, and the
                    \* holder of every mutex
  \* The fork-point search of Sync over the heights of a long chain
  heights           \* the tip height and the lowest unpruned height of the
                    \* store

chainVars == << blocks, last >>

zmqVars ==
  << games, nextSeq, zmqMut, zmqThread, zmqCalls, wire, trackBalance >>

batchVars ==
  << dbRows, savepoints, batchState, writeScope, nestedCommits >>
threadVars == << updater, threads, heights >>
auxVars ==
  << batchVars, gateLog, rpcReply, rpcThreads, cache, baseDown, threadVars >>
baseVars ==
  << zmqVars, auxVars, sanityChecks, maxReorgDepth, baseTip, tipChanges,
     events, nextBatch >>

syncVars ==
  << numBlocks, nextStartHeight, pc, step, moreSteps, aborted, mutChain >>

pendingVars == << chainstateTip, notificationTip, pendingsQueue >>

seenVars == << pushed, walk, attachSent, pendingSent, batchInfo >>

vars == << blocks, last, sanityChecks, maxReorgDepth, baseTip, tipChanges,
           events, nextBatch, numBlocks, nextStartHeight, pc, step, moreSteps,
           aborted, mutChain, chainstateTip, notificationTip, pendingsQueue,
           pushed, walk, attachSent, pendingSent, batchInfo, games, nextSeq,
           zmqMut, zmqThread, zmqCalls, wire, trackBalance, dbRows,
           savepoints, batchState, writeScope, nestedCommits, gateLog,
           rpcReply, rpcThreads, cache, baseDown, updater, threads,
           heights >>
(***************************************************************************)
(* Chainstate queries, as operators over the contents bl of the table.     *)
(***************************************************************************)

\* The one element of a singleton set; { e(x) : x \in {v} } computes v once
\* before e uses it.
Only(S) == CHOOSE x \in S : TRUE

SetMax(S) == CHOOSE x \in S : \A y \in S : y <= x
SetMin(S) == CHOOSE x \in S : \A y \in S : x <= y

OnBranch(bl, b) == { h \in DOMAIN bl : bl[h] = b }

GetTipHeight(bl) ==
  IF OnBranch(bl, 0) = {} THEN -1
  ELSE SetMax({ Height(h) : h \in OnBranch(bl, 0) })

GetLowestUnprunedHeight(bl) ==
  IF OnBranch(bl, 0) = {} THEN -1
  ELSE SetMin({ Height(h) : h \in OnBranch(bl, 0) })

\* The hash of the highest branch-zero block (the first query of SetTip).
TipHash(bl) ==
  IF OnBranch(bl, 0) = {} THEN EmptyHash
  ELSE CHOOSE h \in OnBranch(bl, 0) : Height(h) = GetTipHeight(bl)

GetHeightForHash(bl, hash) ==
  IF hash \in DOMAIN bl THEN [ok |-> TRUE, height |-> Height(hash)]
  ELSE [ok |-> FALSE, height |-> -1]

GetFreeBranchNumber(bl) ==
  IF DOMAIN bl = {} THEN 1
  ELSE SetMax({ bl[h] : h \in DOMAIN bl }) + 1

\* The rows of one branch at or below a height, by descending height (the
\* inner query of GetForkBranch).
DescByHeight(S) ==
  [i \in 1 .. Cardinality(S) |->
     CHOOSE h \in S : Cardinality({ o \in S : Height(o) > Height(h) }) = i - 1]

RECURSIVE ForkBranchLoop(_, _, _)
ForkBranchLoop(bl, curHash, branch) ==
  IF curHash \notin DOMAIN bl
  THEN [ok |-> (branch # << >>), branch |-> branch]
  ELSE IF bl[curHash] = 0
  THEN [ok |-> TRUE, branch |-> branch]
  ELSE LET rows == DescByHeight({ h \in OnBranch(bl, bl[curHash]) :
                                    Height(h) <= Height(curHash) })
       IN Only({ ForkBranchLoop(bl, Parent(ext[Len(ext)]), ext) :
                 ext \in { branch \o rows } })

GetForkBranch(bl, hash) == ForkBranchLoop(bl, hash, << >>)

SeqToSet(s) == { s[i] : i \in DOMAIN s }

(***************************************************************************)
(* Chainstate updates.  Each returns the new contents of the table.        *)
(***************************************************************************)

\* MarkAsTip that leaves the old main chain on branch 0.
MarkAsTipOverMain(bl, blk) ==
  IF bl[blk] = 0 THEN bl
  ELSE Only({ [h \in DOMAIN bl |->
                 IF h \in SeqToSet(branch) THEN 0 ELSE bl[h]] :
              branch \in { GetForkBranch(bl, blk).branch } })

\* Marks a stored block as the tip.
MarkAsTip(bl, blk) ==
  IF bl[blk] = 0
  THEN Only({ [h \in DOMAIN bl |->
                 IF bl[h] = 0 /\ Height(h) > Height(blk) THEN free
                 ELSE bl[h]] :
              free \in { GetFreeBranchNumber(bl) } })
  ELSE Only({ LET low == Height(branch[Len(branch)])
              IN [h \in DOMAIN bl |->
                    IF h \in SeqToSet(branch) THEN 0
                    ELSE IF bl[h] = 0 /\ Height(h) >= low THEN free
                    ELSE bl[h]] :
              branch \in { GetForkBranch(bl, blk).branch },
              free \in { GetFreeBranchNumber(bl) } })

InsertBlock(bl, blk, branch) ==
  [h \in DOMAIN bl \cup {blk} |-> IF h = blk THEN branch ELSE bl[h]]

\* SetTip that attaches a new block without looking for its parent.
SetTipAnyParent(bl, blk) ==
  IF OnBranch(bl, 0) = {}
  THEN [ok |-> FALSE, oldTip |-> EmptyHash, blocks |-> bl]
  ELSE IF blk \in DOMAIN bl
  THEN [ok |-> TRUE, oldTip |-> TipHash(bl), blocks |-> MarkAsTip(bl, blk)]
  ELSE [ok |-> TRUE, oldTip |-> TipHash(bl),
        blocks |-> Only({ MarkAsTip(inserted, blk) :
                          inserted \in { InsertBlock(bl, blk,
                                           GetFreeBranchNumber(bl)) } })]

SetTip(bl, blk) ==
  IF OnBranch(bl, 0) = {}
  THEN [ok |-> FALSE, oldTip |-> EmptyHash, blocks |-> bl]
  ELSE IF blk \in DOMAIN bl
  THEN [ok |-> TRUE, oldTip |-> TipHash(bl), blocks |-> MarkAsTip(bl, blk)]
  ELSE IF Parent(blk) \notin DOMAIN bl
  THEN [ok |-> FALSE, oldTip |-> TipHash(bl), blocks |-> bl]
  ELSE [ok |-> TRUE, oldTip |-> TipHash(bl),
        blocks |-> Only({ MarkAsTip(inserted, blk) :
                          inserted \in { InsertBlock(bl, blk,
                                           GetFreeBranchNumber(bl)) } })]

\* Prune deleting the rows of every branch up to the height.
PruneAnyBranch(bl, untilHeight) ==
  [h \in { o \in DOMAIN bl : Height(o) > untilHeight } |-> bl[h]]

Prune(bl, untilHeight) ==
  LET gone == { h \in OnBranch(bl, 0) : Height(h) <= untilHeight }
  IN [h \in DOMAIN bl \ gone |-> bl[h]]

\* ImportTip that keeps the main-chain blocks below the imported one.
ImportTipKeepingAll(bl, tip) ==
  IF tip \in DOMAIN bl
  THEN [h \in DOMAIN bl |-> IF h = tip THEN 0 ELSE bl[h]]
  ELSE InsertBlock(bl, tip, 0)

\* ImportTip is declared in private/chainstate.hpp; its body follows the
\* contract of the store: relabel or insert on branch 0, then prune every
\* main-chain block below the imported one.
ImportTip(bl, tip) ==
  LET placed == IF tip \in DOMAIN bl
                THEN [h \in DOMAIN bl |-> IF h = tip THEN 0 ELSE bl[h]]
                ELSE InsertBlock(bl, tip, 0)
  IN Prune(placed, Height(tip) - 1)

(***************************************************************************)
(* Chainstate::SanityCheck: TRUE when no CHECK of it fails.                *)
(***************************************************************************)

BranchNumbers(bl) == { bl[h] : h \in DOMAIN bl }

BranchLow(bl, b) ==
  CHOOSE h \in OnBranch(bl, b) :
    \A o \in OnBranch(bl, b) : Height(h) <= Height(o)

BranchLinked(bl, b) ==
  LET rows == DescByHeight(OnBranch(bl, b))
  IN \A i \in 1 .. (Len(rows) - 1) :
       /\ Height(rows[i + 1]) = Height(rows[i]) - 1
       /\ rows[i + 1] = Parent(rows[i])

BranchEndOk(bl, b) ==
  LET lowest == BranchLow(bl, b)
      expectedParent == Parent(lowest)
  IN IF b = 0 THEN expectedParent \notin DOMAIN bl
     ELSE IF expectedParent \notin DOMAIN bl
     THEN Height(lowest) <= GetLowestUnprunedHeight(bl)
     ELSE /\ bl[expectedParent] # b
          /\ Height(expectedParent) = Height(lowest) - 1

SanityCheck(bl) ==
  \/ DOMAIN bl = {}
  \/ /\ \A b \in BranchNumbers(bl) : BranchLinked(bl, b) /\ BranchEndOk(bl, b)
     /\ 0 \in BranchNumbers(bl)


(***************************************************************************)
(* The upstream node (BaseChain), seen through its query interface.  Its   *)
(* main chain is the chain of ancestors of its tip.                        *)
(***************************************************************************)

RECURSIVE AncestorsOf(_)
AncestorsOf(h) ==
  IF h = Pregenesis THEN {} ELSE {h} \cup AncestorsOf(Parent(h))

AncestorTable == [h \in Hashes |-> AncestorsOf(h)]

Ancestors(h) == AncestorTable[h]

BaseGetTipHeight(tip) == Height(tip)

BaseBlockAt(tip, height) ==
  CHOOSE a \in Ancestors(tip) : Height(a) = height

Min(a, b) == IF a < b THEN a ELSE b
Max(a, b) == IF a > b THEN a ELSE b

\* The main-chain blocks from height start on, count at most, ascending.
GetBlockRange(tip, start, count) ==
  LET n == Min(count, Height(tip) - start + 1)
  IN IF n <= 0 THEN << >>
     ELSE [i \in 1 .. n |-> BaseBlockAt(tip, start + i - 1)]

GetMainchainHeight(tip, hash) ==
  IF hash \in Ancestors(tip) THEN Height(hash) ELSE -1

(***************************************************************************)
(* Controller::RunData::PushZmqBlocks for one tracked game.  The result    *)
(* holds the messages handed to the publisher in order, the two output     *)
(* vectors, and the message of a CHECK that failed on the way ("" if none).*)
(***************************************************************************)

AttachMsg(h) == [type |-> "attach", hash |-> h]
DetachMsg(h) == [type |-> "detach", hash |-> h]

MsgsOf(type, hs) == [i \in DOMAIN hs |-> [type |-> type, hash |-> hs[i]]]

Reverse(s) == [i \in DOMAIN s |-> s[Len(s) + 1 - i]]

\* The loop sending one block-detach per detached block.
DetachMsgs(detach) == MsgsOf("detach", detach)

\* SendsAttach sending the fork point again.
SendsAttachFromFork(blk, forkHeight) == Height(blk) >= forkHeight

\* Whether the attach loop sends a block.
SendsAttach(blk, forkHeight) == Height(blk) > forkHeight

\* The loop over the given attaches: it sends every block above the fork
\* height and stops at a block right above the fork height whose parent is
\* not the fork point.
RECURSIVE AttachLoop(_, _, _, _, _, _)
AttachLoop(attaches, i, forkHeight, forkPoint, found, msgs) ==
  IF i > Len(attaches)
  THEN [msgs |-> msgs,
        fatal |-> IF found THEN "" ELSE "Check failed: foundForkPoint"]
  ELSE LET blk == attaches[i]
       IN IF Height(blk) = forkHeight + 1 /\ Parent(blk) # forkPoint
          THEN [msgs |-> msgs,
                fatal |-> "Check failed: blk.parent == forkPoint"]
          ELSE AttachLoop(attaches, i + 1, forkHeight, forkPoint,
                          found \/ Height(blk) = forkHeight + 1,
                          IF SendsAttach(blk, forkHeight)
                          THEN Append(msgs, AttachMsg(blk)) ELSE msgs)

PushResult(msgs, detach, queriedAttach, fatal) ==
  [msgs |-> msgs, detach |-> detach, queriedAttach |-> queriedAttach,
   fatal |-> fatal]

\* Mismatch that accepts any chain the upstream returns.
MismatchIgnored(queriedAttach, forkPoint) == FALSE

\* Whether the queried chain fails to match up with the detaches.
Mismatch(queriedAttach, forkPoint) == Parent(queriedAttach[1]) # forkPoint

\* The last queried block is at or above the lowest unpruned height and
\* GetHeightForHash does not find it.
NotKnownLocally(bl, back, pruningDepth) ==
  /\ Height(back) >= pruningDepth
  /\ ~GetHeightForHash(bl, back).ok

\* The RPC case of PushZmqBlocks: the attaches are queried upstream.  The
\* tip height is compared with the unsigned fork height as an unsigned
\* number, so the -1 of an empty main chain passes the CHECK and leaves num
\* as it is.
PushQueried(bl, tip, num, detach, forkHeight, forkPoint) ==
  LET tipHeight == GetTipHeight(bl)
      sent == DetachMsgs(detach)
  IN IF tipHeight >= 0 /\ tipHeight < forkHeight
     THEN PushResult(sent, detach, << >>,
                     "Check failed: tipHeight >= forkHeight")
     ELSE
       LET queried == GetBlockRange(tip, forkHeight + 1,
                                    IF tipHeight = -1 THEN num
                                    ELSE Min(num, tipHeight - forkHeight))
           pruningDepth == GetLowestUnprunedHeight(bl)
       IN IF queried = << >> THEN PushResult(sent, detach, << >>, "")
          ELSE IF Mismatch(queried, forkPoint)
          THEN PushResult(sent, detach, << >>, "")
          ELSE IF pruningDepth < 0
          THEN PushResult(sent, detach, queried,
                          "Check failed: pruningDepth >= 0")
          ELSE IF NotKnownLocally(bl, queried[Len(queried)], pruningDepth)
          THEN PushResult(sent, detach, << >>, "")
          ELSE PushResult(sent \o MsgsOf("attach", queried), detach,
                          queried, "")

PushZmqBlocks(bl, tip, from, attaches, num) ==
  IF from = EmptyHash
  THEN PushResult(MsgsOf("attach", attaches), << >>, << >>, "")
  ELSE
    LET fork == GetForkBranch(bl, from)
        detach == fork.branch
        mainchainHeight == IF fork.ok THEN -1
                           ELSE GetMainchainHeight(tip, from)
    IN IF ~fork.ok /\ mainchainHeight = -1
       THEN PushResult(<< >>, detach, << >>, "")
       ELSE
         LET forkHeight ==
               IF mainchainHeight # -1 THEN mainchainHeight
               ELSE IF detach = << >> THEN Height(from)
               ELSE Height(detach[Len(detach)]) - 1
             forkPoint ==
               IF mainchainHeight # -1 \/ detach = << >> THEN from
               ELSE Parent(detach[Len(detach)])
         IN IF attaches # << >>
            THEN IF /\ detach # << >>
                    /\ attaches[Len(attaches)] = Parent(detach[Len(detach)])
                 THEN PushResult(DetachMsgs(detach), detach, << >>, "")
                 ELSE LET loop == AttachLoop(attaches, 1, forkHeight,
                                             forkPoint, FALSE,
                                             DetachMsgs(detach))
                      IN PushResult(loop.msgs, detach, << >>, loop.fatal)
            ELSE PushQueried(bl, tip, num, detach, forkHeight, forkPoint)

(***************************************************************************)
(* PendingManager.  Each operation returns the new queue and the batches   *)
(* it hands to ZmqPub::SendPendingMoves.                                   *)
(***************************************************************************)

\* PendingMoves that queues a batch arriving before the first tip update.
PendingMovesQueuedEarly(cTip, nTip, queue, id) ==
  IF cTip = nTip
  THEN [queue |-> queue, sent |-> {id}, fatal |-> ""]
  ELSE [queue |-> Append(queue, id), sent |-> {}, fatal |-> ""]

\* PendingMoves that sends every batch right away.
PendingMovesUnqueued(cTip, nTip, queue, id) ==
  IF cTip = EmptyHash
  THEN [queue |-> queue, sent |-> {}, fatal |-> ""]
  ELSE [queue |-> queue, sent |-> {id}, fatal |-> ""]

\* TipChanged that keeps the queue.
TipChangedKeepingQueue(queue, tip) == [queue |-> queue, nTip |-> tip]

\* PendingManager::TipChanged.
TipChangedResult(queue, tip) == [queue |-> << >>, nTip |-> tip]

\* PendingManager::PendingMoves with the batch named id.
PendingMovesResult(cTip, nTip, queue, id) ==
  IF cTip = EmptyHash
  THEN [queue |-> queue, sent |-> {}, fatal |-> ""]
  ELSE IF cTip = nTip
  THEN [queue |-> queue, sent |-> {id},
        fatal |-> IF queue = << >> THEN ""
                  ELSE "Check failed: pendingsQueue.empty ()"]
  ELSE [queue |-> Append(queue, id), sent |-> {}, fatal |-> ""]

\* ChainstateTipChanged flushing the queue whatever tip was announced.
ChainstateTipChangedUngated(nTip, queue, newTip) ==
  [queue |-> << >>, sent |-> SeqToSet(queue)]

\* ChainstateTipChanged sending the queue without clearing it.
ChainstateTipChangedUncleared(nTip, queue, newTip) ==
  [queue |-> queue,
   sent |-> IF newTip = nTip THEN SeqToSet(queue) ELSE {}]

\* PendingManager::ChainstateTipChanged.
ChainstateTipChangedResult(nTip, queue, newTip) ==
  IF newTip = nTip
  THEN [queue |-> << >>, sent |-> SeqToSet(queue)]
  ELSE [queue |-> queue, sent |-> {}]

(***************************************************************************)
(* The state after construction: an empty store, a worker that has not     *)
(* started a step, an empty pending gate, nothing published.               *)
(***************************************************************************)

NoCall == [op |-> "none", arg |-> 0, ok |-> TRUE, oldTip |-> EmptyHash]

EmptyTable == [h \in {} |-> 0]

NoStep == [genesisHeight |-> 0, startHeight |-> 0, num |-> 0, size |-> 0,
           backHeight |-> 0, cbTip |-> EmptyHash, origin |-> "none",
           baseHeight |-> 0]

NoPush == [from |-> EmptyHash, attaches |-> << >>, msgs |-> << >>]

\* Bounds of the update batches.
MaxBatchObjects == 3    \* UpdateBatch objects created
MaxRows == 3            \* rows written

BatchIds == 1 .. MaxBatchObjects

Rows == 1 .. MaxRows

InitBatch ==
  /\ dbRows = {}
  /\ savepoints = << >>
  /\ batchState = [b \in BatchIds |-> "unborn"]
  /\ writeScope = [r \in {} |-> {}]
  /\ nestedCommits = TRUE

InitChain ==
  /\ blocks = EmptyTable
  /\ last = NoCall
  /\ InitBatch

InitSync ==
  /\ numBlocks = 1
  /\ nextStartHeight = -1
  /\ pc = "idle"
  /\ step = NoStep
  /\ moreSteps = TRUE
  /\ aborted = ""
  /\ mutChain = ""

NoGateCall ==
  [wire |-> << >>, dropped |-> {}, early |-> {}, held |-> {}, arrived |-> 0,
   call |-> [op |-> "none", arg |-> EmptyHash]]

NoJson == [x \in {} |-> 0]

NoRequest ==
  [requests |-> 0, from |-> EmptyHash, range |-> 0, to |-> EmptyHash,
   msgs |-> << >>, res |-> NoJson]

\* Bounds of the concurrent RPC calls.
NumRpcThreads == 2      \* threads of the RPC server
MaxRpcCalls == 3        \* game_sendupdates calls started
MaxCallBlocks == 2      \* block messages one call or tip update sends
MaxTipUpdates == 1      \* tip updates of the Sync worker in between

RpcThreads == 1 .. NumRpcThreads

RpcIdle == [pc |-> "idle", call |-> 0, read |-> 0, reqtoken |-> << >>]

NoRpcCalls ==
  [mut |-> 0, requests |-> 0, calls |-> 0, tipUpdates |-> 0,
   thread |-> [t \in RpcThreads |-> RpcIdle], wire |-> << >>,
   returned |-> << >>]

\* Bounds of the block cache.
MaxMinDepth == 1        \* minDepth the cache is constructed with
MaxCount == 2           \* blocks asked for in one GetBlockRange call

NoCacheCall ==
  [op |-> "none", start |-> 0, count |-> 0, res |-> << >>,
   direct |-> << >>, baseCalls |-> 0, reads |-> 0, writes |-> 0]

NoCache ==
  [kind |-> "none", minDepth |-> 0, lastTipHeight |-> 0,
   data |-> EmptyTable, final |-> {}, last |-> NoCacheCall]

\* Bounds of the upstream connection.
MaxOutages == 1         \* times the upstream starts to fail
MaxCaught == 1          \* exceptions of update steps that are counted

NoOutage == [down |-> FALSE, outages |-> 0, caught |-> 0]

\* Bound of the worker thread.
MaxUpdaterSteps == 3    \* update steps that are counted

\* Sync after Start: the thread is created, the destructor not called.
StartedUpdater ==
  [worker |-> "start", dtor |-> "idle", mut |-> "", shouldStop |-> FALSE,
   woken |-> FALSE, steps |-> 0, calledAt |-> "none"]

\* Bound of the fork-point search by heights: the height of the chains.
MaxSearchHeight == 14

\* The empty store: GetTipHeight and GetLowestUnprunedHeight return -1.
NoHeights == [tip |-> -1, lowest |-> -1]

NoThreads == [x \in {} |-> 0]

InitPending ==
  /\ updater = StartedUpdater
  /\ threads = NoThreads
  /\ heights = NoHeights
  /\ baseDown = NoOutage
  /\ chainstateTip = EmptyHash
  /\ notificationTip = EmptyHash
  /\ pendingsQueue = << >>
  /\ gateLog = NoGateCall
  /\ rpcReply = NoRequest
  /\ rpcThreads = NoRpcCalls
  /\ cache = NoCache

\* Bounds of the publisher.
NumThreads == 2         \* threads calling into ZmqPub
NumGames == 2           \* game ids
MaxTrackDepth == 2      \* how often one game is tracked at a time
MaxCalls == 3           \* Send calls made by all threads together
MaxStrayUntracks == 1   \* UntrackGame calls per game while it is not tracked

Threads == 1 .. NumThreads

Games == 1 .. NumGames

PREFIX_ATTACH == "game-block-attach"
PREFIX_DETACH == "game-block-detach"
PREFIX_MOVE == "game-pending-move"

\* The command strings: prefix + " json " + game id.
Topics == {PREFIX_ATTACH, PREFIX_DETACH, PREFIX_MOVE} \X Games

ZmqIdle ==
  [op |-> "idle", todo |-> {}, sent |-> {}, cur |-> 0, seq |-> 0,
   phase |-> "idle", threw |-> << >>]

InitZmq ==
  /\ games = [g \in Games |-> 0]
  /\ nextSeq = [c \in Topics |-> 0]
  /\ zmqMut = 0
  /\ zmqThread = [t \in Threads |-> ZmqIdle]
  /\ zmqCalls = 0
  /\ wire = [c \in Topics |-> << >>]
  /\ trackBalance = [g \in Games |-> 0]

InitSeen ==
  /\ pushed = NoPush
  /\ walk = EmptyHash
  /\ attachSent = {}
  /\ pendingSent = {}
  /\ batchInfo = << >>

(***************************************************************************)
(* The Chainstate alone, under calls of its interface.  Nothing else       *)
(* runs: the upstream is at the genesis block and never moves.             *)
(***************************************************************************)

InitStore ==
  /\ InitChain
  /\ sanityChecks = FALSE
  /\ maxReorgDepth = 0
  /\ baseTip = 1
  /\ tipChanges = 0
  /\ events = << >>
  /\ nextBatch = 1
  /\ InitZmq
  /\ InitSync
  /\ InitPending
  /\ InitSeen

StoreFrame == UNCHANGED << baseVars, syncVars, pendingVars, seenVars >>

Called(op, arg, ok, oldTip) ==
  [op |-> op, arg |-> arg, ok |-> ok, oldTip |-> oldTip]

\* ImportTip is called with a block above the current tip (or with the tip
\* itself), as its declaration requires.
CallImportTip ==
  \E tip \in Hashes :
    /\ \/ GetTipHeight(blocks) = -1
       \/ Height(tip) > GetTipHeight(blocks)
       \/ tip = TipHash(blocks)
    /\ blocks' = ImportTip(blocks, tip)
    /\ last' = Called("ImportTip", tip, TRUE, EmptyHash)
    /\ StoreFrame

CallSetTip ==
  \E blk \in Hashes :
    LET res == SetTip(blocks, blk)
    IN /\ \A h \in DOMAIN res.blocks : res.blocks[h] <= MaxBranch
       /\ blocks' = res.blocks
       /\ last' = Called("SetTip", blk, res.ok, res.oldTip)
       /\ StoreFrame

CallPrune ==
  \E untilHeight \in 0 .. MaxHeight :
    /\ blocks' = Prune(blocks, untilHeight)
    /\ last' = Called("Prune", untilHeight, TRUE, EmptyHash)
    /\ StoreFrame

NextStore ==
  \/ CallImportTip
  \/ CallSetTip
  \/ CallPrune

SpecStore == InitStore /\ [][NextStore]_vars

(***************************************************************************)
(* The Chainstate as the Controller drives it: the first block is          *)
(* imported into the empty store, further blocks arrive through SetTip,    *)
(* and pruning stays below the tip.                                        *)
(***************************************************************************)

CallInitialImport ==
  /\ blocks = EmptyTable
  /\ CallImportTip

CallPruneBelowTip ==
  \E untilHeight \in 0 .. MaxHeight :
    /\ untilHeight < GetTipHeight(blocks)
    /\ blocks' = Prune(blocks, untilHeight)
    /\ last' = Called("Prune", untilHeight, TRUE, EmptyHash)
    /\ StoreFrame

NextDriven ==
  \/ CallInitialImport
  \/ CallSetTip
  \/ CallPruneBelowTip

SpecDriven == InitStore /\ [][NextDriven]_vars

(***************************************************************************)
(* The running Controller: the upstream node, its callback thread, the     *)
(* Sync worker and the pending gate.  One game is tracked throughout and   *)
(* no publication fails.  A failed CHECK ends the process: every action    *)
(* requires that none has failed.                                          *)
(***************************************************************************)

\* Bounds of the running Controller.
MaxDepth == 1           \* maxReorgDepth is configured from 0 .. MaxDepth
MaxTipChanges == 3      \* changes of the upstream tip, none announced
MaxNotifiedTips == 2    \* changes of the upstream tip, announced or not
MaxEvents == 1          \* upstream callbacks waiting to be delivered
MaxBatches == 1         \* batches of pending moves the upstream raises

\* --xayax_block_range
xayax_block_range == 128

IncreaseNumBlocks(n) == Min(xayax_block_range, n * 2)

\* Controller::EnableSanityChecks is called by tests only.
InitRun ==
  /\ InitChain
  /\ sanityChecks = FALSE
  /\ maxReorgDepth \in 0 .. MaxDepth
  /\ baseTip \in Hashes
  /\ tipChanges = 0
  /\ events = << >>
  /\ nextBatch = 1
  /\ InitZmq
  /\ InitSync
  /\ InitPending
  /\ InitSeen

Running == aborted = ""

\* The upstream node switches to another tip, and announces it or not.
SwitchTip(h, notify) ==
  /\ Running
  /\ baseTip' = h
  /\ tipChanges' = tipChanges + 1
  /\ events' = IF notify THEN Append(events, [type |-> "tip", arg |-> h])
               ELSE events
  /\ UNCHANGED << chainVars, zmqVars, auxVars, sanityChecks,
                  maxReorgDepth,
                  nextBatch, syncVars,
                  pendingVars, seenVars >>

\* The upstream node switches to another tip; its notification may be lost.
UpstreamNewTip ==
  \E h \in Hashes \ {baseTip}, notify \in BOOLEAN :
    /\ tipChanges < MaxNotifiedTips
    /\ notify => Len(events) < MaxEvents
    /\ SwitchTip(h, notify)

\* The upstream node switches to another tip and no notification arrives.
UpstreamSilentTip ==
  \E h \in Hashes \ {baseTip} :
    /\ tipChanges < MaxTipChanges
    /\ SwitchTip(h, FALSE)

\* The upstream node sees a batch of pending moves.
UpstreamPending ==
  /\ Running
  /\ nextBatch <= MaxBatches
  /\ Len(events) < MaxEvents
  /\ events' = Append(events, [type |-> "pending", arg |-> nextBatch])
  /\ nextBatch' = nextBatch + 1
  /\ UNCHANGED << chainVars, zmqVars, auxVars, sanityChecks,
                  maxReorgDepth,
                  baseTip, tipChanges, syncVars,
                  pendingVars, seenVars >>

\* Controller::RunData::TipChanged on the callback thread.
TipChanged ==
  /\ Running
  /\ events # << >>
  /\ Head(events).type = "tip"
  /\ events' = Tail(events)
  /\ LET res == TipChangedResult(pendingsQueue, Head(events).arg)
     IN /\ pendingsQueue' = res.queue
        /\ notificationTip' = res.nTip
  /\ UNCHANGED << chainVars, zmqVars, auxVars, sanityChecks,
                  maxReorgDepth,
                  baseTip, tipChanges, nextBatch,
                  syncVars, chainstateTip, seenVars >>

\* Controller::RunData::PendingMoves on the callback thread.
PendingMoves ==
  /\ Running
  /\ events # << >>
  /\ Head(events).type = "pending"
  /\ LET id == Head(events).arg
         res == PendingMovesResult(chainstateTip, notificationTip,
                                   pendingsQueue, id)
     IN /\ events' = Tail(events)
        /\ pendingsQueue' = res.queue
        /\ pendingSent' = pendingSent \cup res.sent
        /\ aborted' = res.fatal
        /\ batchInfo' = Append(batchInfo,
                               [tip |-> notificationTip,
                                committed |-> TipHash(blocks)])
  /\ UNCHANGED << chainVars, zmqVars, auxVars, sanityChecks,
                  maxReorgDepth,
                  baseTip, tipChanges, nextBatch,
                  numBlocks, nextStartHeight, pc, step, moreSteps, mutChain,
                  chainstateTip, notificationTip, pushed, walk, attachSent >>

\* Where the subscriber is after a sequence of block messages.
RECURSIVE WalkEnd(_, _)
WalkEnd(at, msgs) ==
  IF msgs = << >> THEN at
  ELSE WalkEnd(IF Head(msgs).type = "detach" THEN Parent(Head(msgs).hash)
               ELSE Head(msgs).hash,
               Tail(msgs))

AttachedBy(msgs) ==
  { msgs[i].hash : i \in { j \in DOMAIN msgs : msgs[j].type = "attach" } }

\* The messages of one PushZmqBlocks call reach the subscriber.
Publish(from, attaches, msgs) ==
  /\ pushed' = [from |-> from, attaches |-> attaches, msgs |-> msgs]
  /\ walk' = WalkEnd(walk, msgs)
  /\ attachSent' = attachSent \cup AttachedBy(msgs)

\* A lock_guard on mutChain that never waits.
MutChainIgnored(holder) == TRUE

\* std::lock_guard on mutChain can be taken.
MutChainFree(holder) == holder = ""

\* The lock_guard of UpdateStep holds mutChain until the step returns.
HeldWhile(pcNext) == IF pcNext = "idle" THEN "" ELSE "sync"

\* The upstream answers its pull calls.
BaseAnswers == ~baseDown.down

\* The first part of Sync::UpdateStep: mutChain is locked, the upstream
\* tip height is read and the step either imports a first tip or asks for
\* a range of blocks.  At "fetch" and "import" the call of GetBlockRange
\* is on its way to the upstream.
UpdateStepBegin ==
  /\ Running
  /\ pc = "idle"
  /\ MutChainFree(mutChain)
  /\ BaseAnswers
  /\ mutChain' = "sync"
  /\ LET baseHeight == BaseGetTipHeight(baseTip)
         genesisHeight == IF baseHeight < maxReorgDepth THEN 0
                          ELSE baseHeight - maxReorgDepth
         tipHeight == GetTipHeight(blocks)
     IN IF nextStartHeight = -1 /\ tipHeight = -1
        THEN /\ pc' = "import"
             /\ step' = [NoStep EXCEPT !.genesisHeight = genesisHeight,
                                       !.baseHeight = baseHeight,
                                       !.origin = "initial"]
        ELSE /\ pc' = "fetch"
             /\ step' = [NoStep EXCEPT
                           !.genesisHeight = genesisHeight,
                           !.baseHeight = baseHeight,
                           !.startHeight = IF nextStartHeight = -1
                                           THEN tipHeight
                                           ELSE nextStartHeight,
                           !.num = Max(numBlocks, 3),
                           !.origin = "attach"]
  /\ UNCHANGED << chainVars, baseVars, numBlocks, nextStartHeight,
                  moreSteps, aborted, pendingVars, seenVars >>

\* The loop of UpdateStep over the blocks after the first.
RECURSIVE SetTipLoop(_, _, _)
SetTipLoop(bl, got, i) ==
  IF i > Len(got) THEN [ok |-> TRUE, blocks |-> bl]
  ELSE Only({ IF /\ res.ok
                 /\ res.oldTip = Parent(got[i])
                 /\ res.oldTip = got[i - 1]
              THEN SetTipLoop(res.blocks, got, i + 1)
              ELSE [ok |-> FALSE, blocks |-> bl] :
              res \in { SetTip(bl, got[i]) } })

\* The attaches of the callback with the fork branch after the blocks
\* queried.
CallbackAttachesBranchLast(oldForkBranch, got) ==
  got \o Reverse(oldForkBranch)

\* The attaches of the callback without the re-activated fork branch.
CallbackAttachesQueried(oldForkBranch, got) == got

\* The attaches handed to TipUpdatedFrom: the fork branch that was
\* re-activated, by ascending height, and then the blocks queried.
CallbackAttaches(oldForkBranch, got) == Reverse(oldForkBranch) \o got

\* A callback for every step that attached blocks.
IsNewTipAlways(oldTip, back) == TRUE

\* oldTip != blocks.back ().hash
IsNewTip(oldTip, back) == oldTip # back

\* FinishAttach that asks for another step even when it is caught up.
FinishAttachAlwaysMore(size, backHeight) ==
  /\ numBlocks' = IF size < step.num THEN 1 ELSE IncreaseNumBlocks(numBlocks)
  /\ moreSteps' = TRUE
  /\ pc' = "idle"

\* The next start height without the lowest unpruned height as its floor.
SearchFromUnclamped(lowest, startHeight, num) == startHeight - num

\* std::max<int64_t> (chain.GetLowestUnprunedHeight (), startHeight - num)
SearchFrom(lowest, startHeight, num) == Max(lowest, startHeight - num)

\* The first block does not fit: UpdateStep doubles numBlocks, sets the
\* next start height and returns true, or fails its CHECK_LT.
SearchOn(lowest) ==
  LET next == SearchFrom(lowest, step.startHeight, step.num)
  IN /\ numBlocks' = IncreaseNumBlocks(numBlocks)
     /\ nextStartHeight' = next
     /\ IF next < step.startHeight
        THEN /\ pc' = "idle"
             /\ moreSteps' = TRUE
             /\ UNCHANGED aborted
        ELSE /\ aborted' = "Reorg beyond pruning depth"
             /\ UNCHANGED << pc, moreSteps >>

\* A catch-up that also starts when the last block attached is at the
\* height to import.
FarBehindOrAt(backHeight, genesisHeight) == backHeight <= genesisHeight

\* blocks.back ().height < genesisHeight
FarBehind(backHeight, genesisHeight) == backHeight < genesisHeight

\* The end of UpdateStep once the blocks are attached and notified.
FinishAttach(size, backHeight) ==
  IF size < step.num
  THEN /\ numBlocks' = 1
       /\ moreSteps' = FALSE
       /\ pc' = "idle"
  ELSE IF FarBehind(backHeight, step.genesisHeight)
  THEN /\ pc' = "import"
       /\ UNCHANGED << numBlocks, moreSteps >>
  ELSE /\ numBlocks' = IncreaseNumBlocks(numBlocks)
       /\ moreSteps' = TRUE
       /\ pc' = "idle"

\* The second part of Sync::UpdateStep: the range is fetched and either
\* the search for the fork point goes on, or the blocks are attached and
\* TipUpdatedFrom pushes them to the subscriber.
UpdateStepFetch ==
  /\ Running
  /\ pc = "fetch"
  /\ BaseAnswers
  /\ \E got \in { GetBlockRange(baseTip, step.startHeight, step.num) } :
     \E first \in { IF got = << >>
                     THEN [ok |-> FALSE, oldTip |-> EmptyHash,
                           blocks |-> blocks]
                     ELSE SetTip(blocks, got[1]) } :
     LET oldForkBranch == IF got = << >> THEN << >>
                          ELSE GetForkBranch(blocks, Parent(got[1])).branch
     IN IF ~first.ok
        THEN /\ SearchOn(GetLowestUnprunedHeight(blocks))
             /\ UNCHANGED << blocks, step, seenVars >>
        ELSE \E loop \in { SetTipLoop(first.blocks, got, 2) } :
             \E attaches \in { CallbackAttaches(oldForkBranch, got) } :
             \E push \in { PushZmqBlocks(loop.blocks, baseTip, first.oldTip,
                                         attaches, 0) } :
                /\ nextStartHeight' = -1
                /\ blocks' = IF loop.ok THEN loop.blocks ELSE first.blocks
                /\ step' = [step EXCEPT !.size = Len(got),
                                        !.backHeight = Height(got[Len(got)]),
                                        !.cbTip = got[Len(got)]]
                /\ IF ~loop.ok
                   THEN /\ aborted' = "Check failed: chain.SetTip"
                        /\ UNCHANGED << numBlocks, pc, moreSteps, seenVars >>
                   ELSE IF IsNewTip(first.oldTip, got[Len(got)])
                   THEN /\ Publish(first.oldTip, attaches, push.msgs)
                        /\ aborted' = push.fatal
                        /\ pc' = "notify"
                        /\ UNCHANGED << numBlocks, moreSteps, pendingSent,
                                        batchInfo >>
                   ELSE /\ FinishAttach(Len(got), Height(got[Len(got)]))
                        /\ UNCHANGED << aborted, seenVars >>
  /\ UNCHANGED << last, baseVars, pendingVars >>
  /\ mutChain' = HeldWhile(pc')

\* Sync::ImportNewTip, for the first tip and for the fast catch-up.
ImportNewTip ==
  /\ Running
  /\ pc = "import"
  /\ BaseAnswers
  /\ LET got == GetBlockRange(baseTip, step.genesisHeight, 1)
     IN IF got = << >>
        THEN /\ IF step.origin = "initial"
                THEN /\ moreSteps' = FALSE
                     /\ UNCHANGED numBlocks
                ELSE /\ numBlocks' = IncreaseNumBlocks(numBlocks)
                     /\ moreSteps' = TRUE
             /\ pc' = "idle"
             /\ UNCHANGED << blocks, step, seenVars >>
        ELSE /\ blocks' = ImportTip(blocks, got[1])
             /\ Publish(EmptyHash, got,
                        PushZmqBlocks(blocks', baseTip, EmptyHash, got,
                                      0).msgs)
             /\ step' = [step EXCEPT !.cbTip = got[1]]
             /\ pc' = "notifyImport"
             /\ UNCHANGED << numBlocks, moreSteps, pendingSent, batchInfo >>
  /\ UNCHANGED << last, baseVars, nextStartHeight, aborted, pendingVars >>
  /\ mutChain' = HeldWhile(pc')

\* The rest of Controller::RunData::TipUpdatedFrom after the push: the
\* pending gate learns the new tip and the store is pruned; then the step
\* that made the call returns.
TipUpdatedFromTail ==
  /\ Running
  /\ pc \in {"notify", "notifyImport"}
  /\ LET gate == ChainstateTipChangedResult(notificationTip, pendingsQueue,
                                            step.cbTip)
         tipHeight == GetTipHeight(blocks)
     IN /\ chainstateTip' = step.cbTip
        /\ pendingsQueue' = gate.queue
        /\ pendingSent' = pendingSent \cup gate.sent
        /\ IF sanityChecks /\ ~SanityCheck(blocks)
           THEN /\ aborted' = "Check failed: SanityCheck"
                /\ UNCHANGED << blocks, step, numBlocks, pc, moreSteps >>
           ELSE /\ blocks' = IF tipHeight > maxReorgDepth + 1
                             THEN Prune(blocks,
                                        tipHeight - maxReorgDepth - 1)
                             ELSE blocks
                /\ step' = step
                /\ IF pc = "notifyImport"
                   THEN /\ pc' = "idle"
                        /\ moreSteps' = TRUE
                        /\ UNCHANGED numBlocks
                   ELSE FinishAttach(step.size, step.backHeight)
                /\ UNCHANGED aborted
  /\ UNCHANGED << last, baseVars, nextStartHeight, notificationTip,
                  pushed, walk, attachSent, batchInfo >>
  /\ mutChain' = HeldWhile(pc')

NextRun ==
  \/ UpstreamNewTip
  \/ UpstreamPending
  \/ TipChanged
  \/ PendingMoves
  \/ UpdateStepBegin
  \/ UpdateStepFetch
  \/ ImportNewTip
  \/ TipUpdatedFromTail

SpecRun == InitRun /\ [][NextRun]_vars

\* The Sync worker with an upstream that never raises a callback.
NextSync ==
  \/ UpstreamSilentTip
  \/ UpdateStepBegin
  \/ UpdateStepFetch
  \/ ImportNewTip
  \/ TipUpdatedFromTail

InitSyncOnly ==
  /\ InitChain
  /\ sanityChecks \in BOOLEAN
  /\ maxReorgDepth \in 0 .. MaxDepth
  /\ baseTip \in Hashes
  /\ tipChanges = 0
  /\ events = << >>
  /\ nextBatch = 1
  /\ InitZmq
  /\ InitSync
  /\ InitPending
  /\ InitSeen

SpecSync == InitSyncOnly /\ [][NextSync]_vars

\* The worker thread loops until it is told to stop, and waits with a
\* timeout between two steps, so it keeps taking steps.
Worker ==
  \/ UpdateStepBegin
  \/ UpdateStepFetch
  \/ ImportNewTip
  \/ TipUpdatedFromTail

SpecSyncFair == SpecSync /\ WF_vars(Worker)


(***************************************************************************)
(* ZmqPub under concurrent calls.  Every public method takes the mutex     *)
(* ZmqPub::mut for its whole body; SendMessage, called with the mutex      *)
(* held, reads the sequence number of the command, sends the message and   *)
(* then increments the stored number.  A send may fail, which throws.      *)
(***************************************************************************)

\* A method that forgets to take the mutex.
LockIgnored(t) == TRUE

\* std::lock_guard on ZmqPub::mut can be taken by thread t only while no
\* thread holds the mutex.
LockFree(t) == zmqMut = 0

Unlocked(t) == IF zmqMut = t THEN 0 ELSE zmqMut

TrackedGames == { g \in Games : games[g] > 0 }

ZmqFrame ==
  UNCHANGED << chainVars, auxVars, sanityChecks, maxReorgDepth, baseTip,
               tipChanges, events, nextBatch, syncVars, pendingVars,
               seenVars >>

TrackGame(t, g) ==
  /\ zmqThread[t].op = "idle"
  /\ LockFree(t)
  /\ games[g] < MaxTrackDepth
  /\ games' = [games EXCEPT ![g] = @ + 1]
  /\ trackBalance' = [trackBalance EXCEPT ![g] = @ + 1]
  /\ UNCHANGED << nextSeq, zmqMut, zmqThread, zmqCalls, wire >>
  /\ ZmqFrame

\* UntrackGame that counts below zero for a game that is not tracked.
UntrackGameBelowZero(t, g) ==
  /\ zmqThread[t].op = "idle"
  /\ LockFree(t)
  /\ games[g] > -MaxStrayUntracks
  /\ games' = [games EXCEPT ![g] = @ - 1]
  /\ trackBalance' = [trackBalance EXCEPT ![g] = @ - 1]
  /\ UNCHANGED << nextSeq, zmqMut, zmqThread, zmqCalls, wire >>
  /\ ZmqFrame

UntrackGame(t, g) ==
  /\ zmqThread[t].op = "idle"
  /\ LockFree(t)
  /\ games[g] > 0 \/ games[g] - trackBalance[g] < MaxStrayUntracks
  /\ games' = [games EXCEPT ![g] = IF @ = 0 THEN 0 ELSE @ - 1]
  /\ trackBalance' = [trackBalance EXCEPT ![g] = @ - 1]
  /\ UNCHANGED << nextSeq, zmqMut, zmqThread, zmqCalls, wire >>
  /\ ZmqFrame

\* A Send call takes the mutex and fixes the games it will send for.
BeginSend(t, prefix, todo) ==
  /\ zmqThread[t].op = "idle"
  /\ zmqCalls < MaxCalls
  /\ LockFree(t)
  /\ zmqMut' = t
  /\ zmqCalls' = zmqCalls + 1
  /\ zmqThread' = [zmqThread EXCEPT
                     ![t] = [op |-> prefix, todo |-> todo, sent |-> {},
                             cur |-> 0, seq |-> 0, phase |-> "next",
                             threw |-> << >>]]
  /\ UNCHANGED << games, trackBalance, nextSeq, wire >>
  /\ ZmqFrame

\* ZmqPub::SendBlockAttach and ZmqPub::SendBlockDetach: one message per
\* tracked game.
SendBlock(t) ==
  \E prefix \in {PREFIX_ATTACH, PREFIX_DETACH} :
    BeginSend(t, prefix, TrackedGames)

\* ZmqPub::SendPendingMoves: one message per tracked game the batch has
\* moves for.
SendPendingMoves(t) ==
  \E moved \in SUBSET Games :
    /\ moved # {}
    /\ BeginSend(t, PREFIX_MOVE, TrackedGames \cap moved)

\* SendMessage looks up the sequence number of the command.
SendMessageRead(t) ==
  /\ zmqThread[t].phase = "next"
  /\ \E g \in zmqThread[t].todo :
       zmqThread' = [zmqThread EXCEPT
                       ![t].cur = g,
                       ![t].seq = nextSeq[<< zmqThread[t].op, g >>],
                       ![t].phase = "send"]
  /\ UNCHANGED << games, trackBalance, nextSeq, zmqMut, zmqCalls, wire >>
  /\ ZmqFrame

\* A SendMessage that increments the stored number before it sends.
IncrementBeforeSend(n, phase) == IF phase = "send" THEN n + 1 ELSE n

\* ++mitSeq->second is the last statement of SendMessage, after the three
\* parts have been sent.
IncrementAtEnd(n, phase) == IF phase = "sent" THEN n + 1 ELSE n

\* SendMessage sends the three parts, or throws when the first send fails;
\* the exception leaves the Send call and releases the mutex.  The thread
\* remembers the command and the number of the message that was not sent.
SendMessageSend(t) ==
  /\ zmqThread[t].phase = "send"
  /\ LET cmd == << zmqThread[t].op, zmqThread[t].cur >>
     IN /\ \/ /\ wire' = [wire EXCEPT
                            ![cmd] = Append(@, [seq |-> zmqThread[t].seq,
                                                by |-> t])]
              /\ zmqThread' = [zmqThread EXCEPT
                                 ![t].sent = @ \cup {zmqThread[t].cur},
                                 ![t].phase = "sent"]
              /\ UNCHANGED zmqMut
           \/ /\ zmqThread' =
                   [zmqThread EXCEPT
                      ![t] = [ZmqIdle EXCEPT
                                !.threw = << cmd, zmqThread[t].seq >>]]
              /\ zmqMut' = Unlocked(t)
              /\ UNCHANGED wire
        /\ nextSeq' = [nextSeq EXCEPT ![cmd] = IncrementAtEnd(@, "send")]
  /\ UNCHANGED << games, trackBalance, zmqCalls >>
  /\ ZmqFrame

\* SendMessage increments the stored sequence number at the end.  The
\* number is a uint32_t; MaxCalls keeps it far below the value at which it
\* would wrap.
SendMessageIncrement(t) ==
  /\ zmqThread[t].phase = "sent"
  /\ LET cmd == << zmqThread[t].op, zmqThread[t].cur >>
     IN nextSeq' = [nextSeq EXCEPT ![cmd] = IncrementAtEnd(@, "sent")]
  /\ zmqThread' = [zmqThread EXCEPT
                     ![t].todo = @ \ {zmqThread[t].cur},
                     ![t].phase = "next"]
  /\ UNCHANGED << games, trackBalance, zmqMut, zmqCalls, wire >>
  /\ ZmqFrame

\* The Send call returns and releases the mutex.
SendReturn(t) ==
  /\ zmqThread[t].phase = "next"
  /\ zmqThread[t].todo = {}
  /\ zmqThread' = [zmqThread EXCEPT ![t] = ZmqIdle]
  /\ zmqMut' = Unlocked(t)
  /\ UNCHANGED << games, trackBalance, nextSeq, zmqCalls, wire >>
  /\ ZmqFrame

NextZmq ==
  \E t \in Threads :
    \/ \E g \in Games : TrackGame(t, g)
    \/ \E g \in Games : UntrackGame(t, g)
    \/ SendBlock(t)
    \/ SendPendingMoves(t)
    \/ SendMessageRead(t)
    \/ SendMessageSend(t)
    \/ SendMessageIncrement(t)
    \/ SendReturn(t)

SpecZmq == InitStore /\ [][NextZmq]_vars

(***************************************************************************)
(* Chainstate::UpdateBatch over the savepoints of the database.  Every     *)
(* batch uses the one savepoint name `update-batch`, so that RELEASE and   *)
(* ROLLBACK TO act on the most recent savepoint.  Batches are automatic    *)
(* objects: they are destroyed in the reverse order of their creation.     *)
(* A write inserts a fresh row.                                            *)
(***************************************************************************)

LiveBatches == { b \in BatchIds : batchState[b] \in {"open", "committed"} }

BatchFrame ==
  UNCHANGED << chainVars, zmqVars, gateLog, rpcReply, rpcThreads, cache,
               sanityChecks,
               maxReorgDepth, baseTip,
               tipChanges, events, nextBatch, syncVars, pendingVars,
               seenVars, baseDown,
               threadVars >>

\* SAVEPOINT pushes the current rows.
Savepoint(stack, rows) == Append(stack, rows)

\* RELEASE drops the most recent savepoint and keeps the rows.
Release(stack) == SubSeq(stack, 1, Len(stack) - 1)

\* ROLLBACK TO going back to the oldest savepoint.
RollbackToOldest(stack) == stack[1]

\* ROLLBACK TO brings back the rows of the most recent savepoint.
RollbackTo(stack) == stack[Len(stack)]

\* UpdateBatch::UpdateBatch
BatchOpen ==
  \E b \in BatchIds :
    /\ batchState[b] = "unborn"
    /\ \A o \in BatchIds : o < b => batchState[o] # "unborn"
    /\ savepoints' = Savepoint(savepoints, dbRows)
    /\ batchState' = [batchState EXCEPT ![b] = "open"]
    /\ UNCHANGED << dbRows, writeScope, nestedCommits >>
    /\ BatchFrame

\* A write statement, inside or outside of batches.
BatchWrite ==
  \E r \in Rows :
    /\ r \notin DOMAIN writeScope
    /\ \A o \in Rows : o < r => o \in DOMAIN writeScope
    /\ dbRows' = dbRows \cup {r}
    /\ writeScope' = [w \in DOMAIN writeScope \cup {r} |->
                        IF w = r THEN LiveBatches ELSE writeScope[w]]
    /\ UNCHANGED << savepoints, batchState, nestedCommits >>
    /\ BatchFrame

\* UpdateBatch::Commit, on any batch alive and not yet committed.
BatchCommit ==
  \E b \in BatchIds :
    /\ batchState[b] = "open"
    /\ savepoints' = Release(savepoints)
    /\ batchState' = [batchState EXCEPT ![b] = "committed"]
    /\ nestedCommits' =
         (nestedCommits /\ \A o \in BatchIds : o > b => batchState[o] # "open")
    /\ UNCHANGED << dbRows, writeScope >>
    /\ BatchFrame

\* UpdateBatch::~UpdateBatch, of the batch created last.
BatchDestroy ==
  \E b \in LiveBatches :
    /\ \A o \in LiveBatches : o <= b
    /\ IF batchState[b] = "committed"
       THEN /\ batchState' = [batchState EXCEPT ![b] = "released"]
            /\ UNCHANGED << dbRows, savepoints >>
       ELSE /\ batchState' = [batchState EXCEPT ![b] = "reverted"]
            /\ dbRows' = RollbackTo(savepoints)
            /\ savepoints' = Release(savepoints)
    /\ UNCHANGED << writeScope, nestedCommits >>
    /\ BatchFrame

NextBatch ==
  \/ BatchOpen
  \/ BatchWrite
  \/ BatchCommit
  \/ BatchDestroy

SpecBatch == InitStore /\ [][NextBatch]_vars

(***************************************************************************)
(* The PendingManager alone, under calls of its interface in any order.    *)
(* Each method holds PendingManager::mut for its whole body.  The          *)
(* publisher sends every batch handed to it.                               *)
(***************************************************************************)

\* Bounds of the pending gate.
NumGateTips == 2        \* block hashes the tip calls are made with
MaxGateBatches == 3     \* batches of pending moves handed in

GateTips == 1 .. NumGateTips

GateFrame ==
  UNCHANGED << chainVars, zmqVars, batchVars, rpcReply, rpcThreads, cache,
               sanityChecks,
               maxReorgDepth,
               baseTip, tipChanges, events, nextBatch, numBlocks,
               nextStartHeight, pc, step, moreSteps, mutChain, seenVars,
               baseDown,
               threadVars >>

GateCall(op, arg) == [op |-> op, arg |-> arg]

\* PendingManager::TipChanged
GateTipChanged ==
  \E tip \in GateTips :
    LET res == TipChangedResult(pendingsQueue, tip)
    IN /\ Running
       /\ pendingsQueue' = res.queue
       /\ notificationTip' = res.nTip
       /\ gateLog' = [gateLog EXCEPT
                        !.dropped = @ \cup SeqToSet(pendingsQueue),
                        !.call = GateCall("TipChanged", tip)]
       /\ UNCHANGED << chainstateTip, aborted >>
       /\ GateFrame

\* PendingManager::PendingMoves
GatePendingMoves ==
  /\ Running
  /\ gateLog.arrived < MaxGateBatches
  /\ LET id == gateLog.arrived + 1
         res == PendingMovesResult(chainstateTip, notificationTip,
                                   pendingsQueue, id)
     IN /\ pendingsQueue' = res.queue
        /\ aborted' = res.fatal
        /\ gateLog' = [gateLog EXCEPT
                         !.arrived = id,
                         !.early = IF chainstateTip = EmptyHash
                                   THEN @ \cup {id} ELSE @,
                         !.wire = IF res.sent = {} THEN @ ELSE Append(@, id),
                         !.held = IF res.queue = pendingsQueue
                                  THEN @ ELSE @ \cup {id},
                         !.call = GateCall("PendingMoves", id)]
  /\ UNCHANGED << chainstateTip, notificationTip >>
  /\ GateFrame

\* PendingManager::ChainstateTipChanged
GateChainstateTipChanged ==
  \E newTip \in GateTips :
    LET res == ChainstateTipChangedResult(notificationTip, pendingsQueue,
                                          newTip)
    IN /\ Running
       /\ chainstateTip' = newTip
       /\ pendingsQueue' = res.queue
       /\ gateLog' = [gateLog EXCEPT
                        !.wire = IF res.sent = {} THEN @
                                 ELSE @ \o pendingsQueue,
                        !.call = GateCall("ChainstateTipChanged", newTip)]
       /\ UNCHANGED << notificationTip, aborted >>
       /\ GateFrame

NextPending ==
  \/ GateTipChanged
  \/ GatePendingMoves
  \/ GateChainstateTipChanged

SpecPending == InitStore /\ [][NextPending]_vars

(***************************************************************************)
(* The game_sendupdates RPC.  It runs PushZmqBlocks under mutChain with no *)
(* attaches given, so that the attaches are queried from the upstream      *)
(* node, and builds its JSON result from the two output vectors.  The      *)
(* upstream node answers every query.                                      *)
(***************************************************************************)

\* Bound of the RPC requests made.
MaxRequests == 1

\* Values of --xayax_block_range the server runs with: the one the tests
\* set and the default.
BlockRanges == {1, xayax_block_range}

\* game_sendupdates3 reporting fromBlock as the block reached.
SendUpdatesJsonFrom(requests, from, detaches, attaches) ==
  [reqtoken |-> requests, toblock |-> from,
   steps |-> [detach |-> Len(detaches), attach |-> Len(attaches)]]

\* The JSON object built at the end of game_sendupdates3.
SendUpdatesJson(requests, from, detaches, attaches) ==
  [reqtoken |-> requests,
   toblock |-> IF attaches # << >> THEN attaches[Len(attaches)]
               ELSE IF detaches # << >>
               THEN Parent(detaches[Len(detaches)])
               ELSE from,
   steps |-> [detach |-> Len(detaches), attach |-> Len(attaches)]]

\* The server is up and has requests left to answer.
Serving == Running /\ rpcReply.requests < MaxRequests

RpcFrame ==
  UNCHANGED << chainVars, zmqVars, batchVars, gateLog, rpcThreads, cache,
               sanityChecks,
               maxReorgDepth, tipChanges, events, nextBatch, numBlocks,
               nextStartHeight, pc, step, moreSteps, mutChain, pendingVars,
               seenVars, baseDown,
               threadVars >>

\* The toblock arguments of the calls: none (game_sendupdates2) or the
\* local tip.
ToBlocks(bl) == {EmptyHash, TipHash(bl)}

\* Controller::RpcServer::game_sendupdates3.  CHECK_EQ (to, "") comes
\* before the request counter; the call returns once it has had mutChain.
game_sendupdates3 ==
  \E from \in Hashes, range \in BlockRanges, to \in ToBlocks(blocks) :
    LET requests == rpcReply.requests + 1
        push == PushZmqBlocks(blocks, baseTip, from, << >>, range)
        fatal == IF to # EmptyHash THEN "Check failed: to == \"\""
                 ELSE push.fatal
    IN /\ Serving
       /\ to = EmptyHash => MutChainFree(mutChain)
       /\ aborted' = fatal
       /\ rpcReply' = [requests |-> requests, from |-> from,
                       range |-> range, to |-> to,
                       msgs |-> IF to # EmptyHash THEN << >>
                                ELSE push.msgs,
                       res |-> IF fatal # "" THEN NoJson
                               ELSE SendUpdatesJson(requests, from,
                                                    push.detach,
                                                    push.queriedAttach)]
       /\ UNCHANGED baseTip
       /\ RpcFrame

\* The upstream node moves to another tip.
UpstreamTip ==
  \E h \in Hashes :
    /\ Serving
    /\ h # baseTip
    /\ baseTip' = h
    /\ UNCHANGED << rpcReply, aborted >>
    /\ RpcFrame

NextRpc ==
  \/ Serving /\ CallInitialImport
  \/ Serving /\ CallSetTip
  \/ Serving /\ CallPruneBelowTip
  \/ UpstreamTip
  \/ game_sendupdates3

SpecRpc == InitStore /\ [][NextRpc]_vars

(***************************************************************************)
(* Request tokens.  Concurrent game_sendupdates calls mint their tokens    *)
(* from RpcServer::requests under RpcServer::mut, push their blocks under  *)
(* mutChain and return the token; the Sync worker's tip updates push       *)
(* blocks with the empty token.  A call is numbered when it starts.        *)
(***************************************************************************)

TokenFrame ==
  UNCHANGED << chainVars, zmqVars, batchVars, gateLog, rpcReply, cache,
               sanityChecks, maxReorgDepth, baseTip, tipChanges, events,
               nextBatch, syncVars, pendingVars, seenVars, baseDown,
               threadVars >>

\* A lock_guard that never waits.
RpcMutIgnored(holder) == TRUE

\* std::lock_guard on RpcServer::mut can be taken.
RpcMutFree(holder) == holder = 0

\* reqtoken << "request_" << requests
RequestToken(requests) == << "request_", requests >>

\* The template ZmqPub::SendBlock builds: reqtoken is set unless empty.
BlockTemplate(blk, reqtoken) ==
  IF reqtoken = << >> THEN [block |-> blk]
  ELSE [block |-> blk, reqtoken |-> reqtoken]

\* The block messages of one PushZmqBlocks call, all with its reqtoken.
PushedBlocks(call, blks, reqtoken) ==
  [i \in DOMAIN blks |->
     [call |-> call, json |-> BlockTemplate(blks[i], reqtoken)]]

BlockLists ==
  UNION { [1 .. n -> Hashes \cap 1 .. 2] : n \in 0 .. MaxCallBlocks }

\* game_sendupdates3 takes the lock on mut and reads requests.
RpcLockMut(t) ==
  /\ rpcThreads.thread[t].pc = "idle"
  /\ rpcThreads.calls < MaxRpcCalls
  /\ RpcMutFree(rpcThreads.mut)
  /\ rpcThreads' =
       [rpcThreads EXCEPT
          !.mut = t, !.calls = @ + 1,
          !.thread[t] = [pc |-> "locked", call |-> rpcThreads.calls + 1,
                         read |-> rpcThreads.requests,
                         reqtoken |-> << >>]]
  /\ TokenFrame

\* ++requests, the token is built and the lock is released.
RpcMintToken(t) ==
  /\ rpcThreads.thread[t].pc = "locked"
  /\ LET requests == rpcThreads.thread[t].read + 1
     IN rpcThreads' =
          [rpcThreads EXCEPT
             !.requests = requests,
             !.mut = IF @ = t THEN 0 ELSE @,
             !.thread[t].pc = "minted",
             !.thread[t].reqtoken = RequestToken(requests)]
  /\ TokenFrame

\* PushZmqBlocks under mutChain, then the result is returned.
RpcPushAndReturn(t) ==
  \E blks \in BlockLists :
    LET me == rpcThreads.thread[t]
    IN /\ me.pc = "minted"
       /\ rpcThreads' =
            [rpcThreads EXCEPT
               !.wire = @ \o PushedBlocks(me.call, blks, me.reqtoken),
               !.returned = Append(@, [call |-> me.call,
                                       reqtoken |-> me.reqtoken]),
               !.thread[t] = RpcIdle]
       /\ TokenFrame

\* Controller::RunData::TipUpdatedFrom pushes with the empty token.
TipUpdatePush ==
  \E blks \in BlockLists :
    /\ blks # << >>
    /\ rpcThreads.tipUpdates < MaxTipUpdates
    /\ rpcThreads' =
         [rpcThreads EXCEPT
            !.tipUpdates = @ + 1,
            !.wire = @ \o PushedBlocks(0, blks, << >>)]
    /\ TokenFrame

NextToken ==
  \/ \E t \in RpcThreads : RpcLockMut(t)
  \/ \E t \in RpcThreads : RpcMintToken(t)
  \/ \E t \in RpcThreads : RpcPushAndReturn(t)
  \/ TipUpdatePush

SpecToken == InitStore /\ [][NextToken]_vars

(***************************************************************************)
(* BlockCacheChain in front of the upstream node, with one of the two      *)
(* storages.  A storage maps heights to blocks.  The MySQL server is taken *)
(* to execute every statement.                                             *)
(***************************************************************************)

CacheFrame ==
  UNCHANGED << chainVars, zmqVars, batchVars, gateLog, rpcReply, rpcThreads,
               sanityChecks, maxReorgDepth, tipChanges, events, nextBatch,
               syncVars, pendingVars, seenVars, baseDown,
               threadVars >>

Put(data, blk) ==
  [h \in DOMAIN data \cup {Height(blk)} |->
     IF h = Height(blk) THEN blk ELSE data[h]]

\* std::map::emplace keeps the element the map already has for the key.
Emplace(data, blk) ==
  IF Height(blk) \in DOMAIN data THEN data ELSE Put(data, blk)

\* InMemoryBlockStorage::Store and MySqlBlockStorage::Store (REPLACE INTO).
RECURSIVE Store(_, _, _)
Store(kind, data, blks) ==
  IF blks = << >> THEN data
  ELSE Store(kind,
             IF kind = "memory" THEN Emplace(data, Head(blks))
             ELSE Put(data, Head(blks)),
             Tail(blks))

\* InMemoryBlockStorage::GetRange: the block at start, then blocks of
\* consecutive heights until count are found; nothing otherwise.
MemoryGetRange(data, start, count) ==
  IF start \notin DOMAIN data THEN << >>
  ELSE IF \A h \in start .. start + Max(count, 1) - 1 : h \in DOMAIN data
  THEN [i \in 1 .. Max(count, 1) |-> data[start + i - 1]]
  ELSE << >>

\* MySqlBlockStorage::GetRange: the rows with start <= height <
\* start + count by ascending height.
MySqlGetRange(data, start, count) ==
  LET hs == { h \in DOMAIN data : start <= h /\ h < start + count }
      RECURSIVE Fetch(_)
      Fetch(left) == IF left = {} THEN << >>
                    ELSE << data[SetMin(left)] >>
                           \o Fetch(left \ {SetMin(left)})
  IN Fetch(hs)

\* A GetRange that answers with the rows one height lower.
GetRangeOneBelow(kind, data, start, count) ==
  MySqlGetRange(data, start - 1, count)

\* Storage::GetRange of the storage the cache was constructed with.
GetRange(kind, data, start, count) ==
  IF kind = "memory" THEN MemoryGetRange(data, start, count)
  ELSE MySqlGetRange(data, start, count)

\* The upstream blocks with at least minDepth successors.
Final(tip, minDepth) ==
  { b \in Ancestors(tip) : Height(tip) - Height(b) >= minDepth }

\* BlockCacheChain::BlockCacheChain
CacheConstruct ==
  \E kind \in {"memory", "mysql"}, md \in 0 .. MaxMinDepth :
    /\ cache.kind = "none"
    /\ cache' = [cache EXCEPT !.kind = kind, !.minDepth = md,
                              !.final = Final(baseTip, md)]
    /\ UNCHANGED baseTip
    /\ CacheFrame

\* BlockCacheChain::GetTipHeight
CacheGetTipHeight ==
  /\ cache.kind # "none"
  /\ cache' = [cache EXCEPT
                 !.lastTipHeight = BaseGetTipHeight(baseTip),
                 !.last = [NoCacheCall EXCEPT !.op = "GetTipHeight",
                                              !.baseCalls = 1]]
  /\ UNCHANGED baseTip
  /\ CacheFrame

\* A GetBlockRange that looks into the storage whatever the tip height.
CloseToTipNever(start, count, minDepth, lastTipHeight) == FALSE

\* start + count + minDepth > lastTipHeight + 1
CloseToTip(start, count, minDepth, lastTipHeight) ==
  start + count + minDepth > lastTipHeight + 1

\* BlockCacheChain::GetBlockRange
CacheGetBlockRange ==
  \E start \in 0 .. MaxHeight, count \in 0 .. MaxCount :
    LET direct == GetBlockRange(baseTip, start, count)
        stored == GetRange(cache.kind, cache.data, start, count)
        call == [NoCacheCall EXCEPT !.op = "GetBlockRange",
                                    !.start = start, !.count = count,
                                    !.direct = direct]
    IN /\ cache.kind # "none"
       /\ IF CloseToTip(start, count, cache.minDepth, cache.lastTipHeight)
          THEN cache' = [cache EXCEPT
                           !.last = [call EXCEPT !.res = direct,
                                                 !.baseCalls = 1]]
          ELSE IF Len(stored) = count
          THEN cache' = [cache EXCEPT
                           !.last = [call EXCEPT !.res = stored,
                                                 !.reads = 1]]
          ELSE cache' = [cache EXCEPT
                           !.data = Store(cache.kind, @, direct),
                           !.last = [call EXCEPT !.res = direct,
                                                 !.baseCalls = 1,
                                                 !.reads = 1,
                                                 !.writes = 1]]
       /\ UNCHANGED baseTip
       /\ CacheFrame

\* The upstream node moves to another tip; blocks that have been minDepth
\* deep stay on its main chain.
CacheUpstreamTip ==
  \E h \in Hashes :
    /\ cache.kind # "none"
    /\ h # baseTip
    /\ cache.final \subseteq Ancestors(h)
    /\ baseTip' = h
    /\ cache' = [cache EXCEPT !.final = @ \cup Final(h, cache.minDepth)]
    /\ CacheFrame

\* The upstream node moves to any other tip.
CacheUpstreamReorg ==
  \E h \in Hashes :
    /\ cache.kind # "none"
    /\ h # baseTip
    /\ baseTip' = h
    /\ cache' = [cache EXCEPT !.final = @ \cup Final(h, cache.minDepth)]
    /\ CacheFrame

\* Storage::Store called directly.
StorageStore ==
  \E tip \in Hashes, start \in 0 .. MaxHeight, count \in 1 .. MaxCount :
    LET blks == GetBlockRange(tip, start, count)
    IN /\ cache.kind # "none"
       /\ cache' = [cache EXCEPT
                      !.data = Store(cache.kind, @, blks),
                      !.last = [NoCacheCall EXCEPT !.op = "Store",
                                                   !.res = blks,
                                                   !.writes = 1]]
       /\ UNCHANGED baseTip
       /\ CacheFrame

NextCache ==
  \/ CacheConstruct
  \/ CacheGetTipHeight
  \/ CacheGetBlockRange
  \/ CacheUpstreamTip

SpecCache == InitStore /\ [][NextCache]_vars

NextCacheAny ==
  \/ CacheConstruct
  \/ CacheGetTipHeight
  \/ CacheGetBlockRange
  \/ CacheUpstreamReorg

SpecCacheAny == InitStore /\ [][NextCacheAny]_vars

NextStorage ==
  \/ CacheConstruct
  \/ StorageStore

SpecStorage == InitStore /\ [][NextStorage]_vars

(***************************************************************************)
(* The Sync worker with an upstream whose pull calls throw for a while,    *)
(* and the Sync worker next to an RPC thread that takes mutChain.          *)
(***************************************************************************)

\* The upstream starts to throw on every pull call.
UpstreamDown ==
  /\ Running
  /\ BaseAnswers
  /\ baseDown.outages < MaxOutages
  /\ baseDown' = [baseDown EXCEPT !.down = TRUE, !.outages = @ + 1]
  /\ UNCHANGED << chainVars, zmqVars, batchVars, gateLog, rpcReply,
                  rpcThreads, cache, sanityChecks, maxReorgDepth, baseTip,
                  tipChanges, events, nextBatch, syncVars, pendingVars,
                  seenVars, threadVars >>

\* The upstream answers again.
UpstreamUp ==
  /\ Running
  /\ baseDown.down
  /\ baseDown' = [baseDown EXCEPT !.down = FALSE]
  /\ UNCHANGED << chainVars, zmqVars, batchVars, gateLog, rpcReply,
                  rpcThreads, cache, sanityChecks, maxReorgDepth, baseTip,
                  tipChanges, events, nextBatch, syncVars, pendingVars,
                  seenVars, threadVars >>

\* An exception of UpdateStep that nobody catches ends the process.
WorkerTerminate(exc) == [moreSteps |-> FALSE, fatal |-> exc]

\* The catch block of the worker loop in Sync::Start.
WorkerCatch(exc) == [moreSteps |-> FALSE, fatal |-> ""]

\* Sync::UpdateStep when the pull call it makes next throws: GetTipHeight
\* at the start, GetBlockRange of the step or of ImportNewTip.  The
\* lock_guard releases mutChain and the worker loop catches the exception.
UpdateStepThrows ==
  /\ Running
  /\ pc \in {"idle", "fetch", "import"}
  /\ pc = "idle" => MutChainFree(mutChain)
  /\ baseDown.down
  /\ LET caught == WorkerCatch("base chain error")
     IN /\ moreSteps' = caught.moreSteps
        /\ aborted' = caught.fatal
  /\ pc' = "idle"
  /\ mutChain' = ""
  /\ baseDown' = [baseDown EXCEPT !.caught = Min(@ + 1, MaxCaught)]
  /\ UNCHANGED << chainVars, zmqVars, batchVars, gateLog, rpcReply,
                  rpcThreads, cache, sanityChecks, maxReorgDepth, baseTip,
                  tipChanges, events, nextBatch, numBlocks, nextStartHeight,
                  step, pendingVars, seenVars, threadVars >>

NextSyncErr ==
  \/ UpstreamSilentTip
  \/ UpstreamDown
  \/ UpstreamUp
  \/ UpdateStepBegin
  \/ UpdateStepFetch
  \/ ImportNewTip
  \/ TipUpdatedFromTail
  \/ UpdateStepThrows

SpecSyncErr == InitSyncOnly /\ [][NextSyncErr]_vars

\* The worker loop goes on after a step that returned and after a step
\* that threw.
WorkerLoop == Worker \/ UpdateStepThrows

SpecSyncErrFair == SpecSyncErr /\ WF_vars(WorkerLoop)

\* The Sync worker and one RPC thread.
NextLocks ==
  \/ UpstreamSilentTip
  \/ UpdateStepBegin
  \/ UpdateStepFetch
  \/ ImportNewTip
  \/ TipUpdatedFromTail
  \/ game_sendupdates3

SpecLocks == InitSyncOnly /\ [][NextLocks]_vars

(***************************************************************************)
(* The worker thread of Sync::Start next to Sync::~Sync.  Upstream calls   *)
(* return, so that every UpdateStep ends.  The worker is at "start" before *)
(* it has locked Sync::mut, at "check" when it tests shouldStop, at "step" *)
(* inside UpdateStep, at "pause" in the sleep between two steps, at        *)
(* "wait" in cv.wait_for and at "done" after the loop.  The destructor is  *)
(* at "lock" while it waits for Sync::mut and at "join" in updater->join.  *)
(***************************************************************************)

ThreadFrame ==
  UNCHANGED << chainVars, zmqVars, batchVars, gateLog, rpcReply, rpcThreads,
               cache, baseDown, sanityChecks, maxReorgDepth, baseTip,
               tipChanges, events, nextBatch, syncVars, pendingVars,
               seenVars >>

\* The worker takes Sync::mut: at its start and after the pause.
WorkerLock ==
  /\ updater.worker \in {"start", "pause"}
  /\ updater.mut = ""
  /\ updater' = [updater EXCEPT !.worker = "check", !.mut = "worker"]
  /\ UNCHANGED << threads, heights >>
  /\ ThreadFrame

\* while (!shouldStop): the loop ends and the unique_lock is released, or
\* UpdateStep is called.
WorkerCheck ==
  /\ updater.worker = "check"
  /\ updater' = IF updater.shouldStop
                THEN [updater EXCEPT !.worker = "done", !.mut = ""]
                ELSE [updater EXCEPT !.worker = "step"]
  /\ UNCHANGED << threads, heights >>
  /\ ThreadFrame

\* UpdateStep returns or throws; the worker unlocks and sleeps when there
\* are more steps and waits on the condition variable otherwise.
WorkerStep ==
  \E more \in BOOLEAN :
    /\ updater.worker = "step"
    /\ updater' = [updater EXCEPT
                     !.worker = IF more THEN "pause" ELSE "wait",
                     !.mut = "",
                     !.woken = FALSE,
                     !.steps = Min(@ + 1, MaxUpdaterSteps)]
    /\ UNCHANGED << threads, heights >>
    /\ ThreadFrame

\* cv.wait_for returns after a notification, with Sync::mut locked again.
WorkerWake ==
  /\ updater.worker = "wait"
  /\ updater.woken
  /\ updater.mut = ""
  /\ updater' = [updater EXCEPT !.worker = "check", !.mut = "worker",
                                !.woken = FALSE]
  /\ UNCHANGED << threads, heights >>
  /\ ThreadFrame

\* cv.wait_for returns after --xayax_update_timeout_ms or spuriously.
WorkerTimeout ==
  /\ updater.worker = "wait"
  /\ updater.mut = ""
  /\ updater' = [updater EXCEPT !.worker = "check", !.mut = "worker",
                                !.woken = FALSE]
  /\ UNCHANGED << threads, heights >>
  /\ ThreadFrame

\* Sync::NewBaseChainTip on the callback thread.
NewBaseChainTip ==
  /\ updater.mut = ""
  /\ updater.worker = "wait"
  /\ ~updater.woken
  /\ updater' = [updater EXCEPT !.woken = TRUE]
  /\ UNCHANGED << threads, heights >>
  /\ ThreadFrame

\* Sync::~Sync is called; what the worker is doing then is kept.
DestructorBegin ==
  /\ updater.dtor = "idle"
  /\ updater' = [updater EXCEPT !.dtor = "lock",
                                !.calledAt = updater.worker]
  /\ UNCHANGED << threads, heights >>
  /\ ThreadFrame

\* A notify_all that wakes nobody.
NotifyNone(worker, woken) == woken

\* cv.notify_all wakes the thread that waits on the condition variable.
NotifyAll(worker, woken) == woken \/ worker = "wait"

\* Sync::~Sync with Sync::mut: shouldStop is set and the worker notified.
DestructorStop ==
  /\ updater.dtor = "lock"
  /\ updater.mut = ""
  /\ updater' = [updater EXCEPT
                   !.dtor = "join",
                   !.shouldStop = TRUE,
                   !.woken = NotifyAll(updater.worker, updater.woken)]
  /\ UNCHANGED << threads, heights >>
  /\ ThreadFrame

\* updater->join () returns and the thread object is reset.
DestructorJoin ==
  /\ updater.dtor = "join"
  /\ updater.worker = "done"
  /\ updater.mut = ""
  /\ updater' = [updater EXCEPT !.dtor = "done"]
  /\ UNCHANGED << threads, heights >>
  /\ ThreadFrame

NextUpdater ==
  \/ WorkerLock
  \/ WorkerCheck
  \/ WorkerStep
  \/ WorkerWake
  \/ WorkerTimeout
  \/ NewBaseChainTip
  \/ DestructorBegin
  \/ DestructorStop
  \/ DestructorJoin

SpecUpdater == InitStore /\ [][NextUpdater]_vars

\* The worker thread runs when it can; the timeout of wait_for is not
\* relied on.  A thread that waits in mut.lock () gets the mutex at one of
\* the times it is free.
SpecUpdaterFair ==
  /\ SpecUpdater
  /\ WF_vars(WorkerCheck \/ WorkerStep)
  /\ SF_vars(WorkerLock \/ WorkerWake)
  /\ SF_vars(DestructorStop)
  /\ WF_vars(DestructorJoin)

(***************************************************************************)
(* The fork-point search of Sync::UpdateStep over chains as high as those  *)
(* of the test LongReorg.  The store is seen through its two heights       *)
(* (GetTipHeight and GetLowestUnprunedHeight), the upstream through what   *)
(* its answer leads to: the first block of the range fits the store or it  *)
(* does not, and a range that fits attaches some of the blocks asked for.  *)
(* Pruning after an attach raises the lowest unpruned height by any        *)
(* amount up to the new tip.                                               *)
(***************************************************************************)

SearchFrame ==
  UNCHANGED << chainVars, zmqVars, batchVars, gateLog, rpcReply, rpcThreads,
               cache, baseDown, updater, threads, sanityChecks,
               maxReorgDepth, baseTip, tipChanges, events, nextBatch,
               mutChain, pendingVars, seenVars >>

\* UpdateStep on the empty store: ImportNewTip makes the block at the
\* genesis height the only block of the store.
SearchImport ==
  /\ Running
  /\ pc = "idle"
  /\ heights.tip = -1
  /\ \E h \in 0 .. MaxSearchHeight : heights' = [tip |-> h, lowest |-> h]
  /\ moreSteps' = TRUE
  /\ UNCHANGED << numBlocks, nextStartHeight, pc, step, aborted >>
  /\ SearchFrame

\* The start of UpdateStep: the start height is nextStartHeight, or the
\* tip height when no search is under way, and at least three blocks are
\* asked for.
SearchBegin ==
  /\ Running
  /\ pc = "idle"
  /\ heights.tip # -1
  /\ step' = [NoStep EXCEPT
                !.startHeight = IF nextStartHeight = -1 THEN heights.tip
                                ELSE nextStartHeight,
                !.num = Max(numBlocks, 3),
                !.origin = "attach"]
  /\ pc' = "fetch"
  /\ UNCHANGED << numBlocks, nextStartHeight, moreSteps, aborted, heights >>
  /\ SearchFrame

\* The range is empty or SetTip rejects its first block.
SearchFail ==
  /\ Running
  /\ pc = "fetch"
  /\ SearchOn(heights.lowest)
  /\ UNCHANGED << step, heights >>
  /\ SearchFrame

\* SetTip accepts the first block: the search is over, the blocks of the
\* range are attached and the store is pruned.
SearchAttach ==
  /\ Running
  /\ pc = "fetch"
  /\ \E size \in 1 .. step.num :
     \E back \in { step.startHeight + size - 1 } :
     \E low \in heights.lowest .. back :
       /\ back <= MaxSearchHeight
       /\ heights' = [tip |-> back, lowest |-> low]
       /\ nextStartHeight' = -1
       /\ step' = [step EXCEPT !.size = size, !.backHeight = back]
       /\ FinishAttach(size, back)
  /\ UNCHANGED aborted
  /\ SearchFrame

NextSearch ==
  \/ SearchImport
  \/ SearchBegin
  \/ SearchFail
  \/ SearchAttach

SpecSearch == InitStore /\ [][NextSearch]_vars

\* The worker thread keeps taking steps.
SpecSearchFair == SpecSearch /\ WF_vars(NextSearch)

(***************************************************************************)
(* The threads of a running Controller and the mutexes they take.  Each    *)
(* thread follows a path: the sequence of lock and unlock operations, and  *)
(* of the other operations that make a thread wait or let one go on, that  *)
(* the code of a call makes in program order.  The mutexes are             *)
(*   K  Controller::mut            B  BaseChain::mut (callbacks)           *)
(*   S  Sync::mut                  C  RunData::mutChain                    *)
(*   P  PendingManager::mut        Z  ZmqPub::mut                          *)
(*   R  RpcServer::mut                                                     *)
(* The threads are the one in Controller::Run ("main"), the upstream's     *)
(* callback thread ("cb"), the Sync worker ("worker") and a thread of the  *)
(* RPC server ("rpc").  Upstream calls return.  StopListening returns      *)
(* with no new call accepted; a call under way goes on.                    *)
(***************************************************************************)

ThreadNames == {"main", "cb", "worker", "rpc"}
Mutexes == {"K", "B", "S", "C", "P", "Z", "R"}

Lock(m) == << "lock", m >>
Unlock(m) == << "unlock", m >>
Do(what) == << "do", what >>

\* BaseChain::TipChanged and BaseChain::PendingMoves call the Controller
\* with BaseChain::mut held: RunData::TipChanged goes through the
\* PendingManager and wakes the worker; RunData::PendingMoves publishes
\* inside PendingManager::PendingMoves or queues the batch.
CallbackPath(kind) ==
  IF kind = "tip"
  THEN << Lock("P"), Unlock("P"), Lock("S"), Unlock("S") >>
  ELSE IF kind = "moves"
  THEN << Lock("P"), Lock("Z"), Unlock("Z"), Unlock("P") >>
  ELSE << Lock("P"), Unlock("P") >>

\* Sync::UpdateStep under mutChain; with callbacks set TipUpdatedFrom
\* publishes the blocks and PendingManager::ChainstateTipChanged publishes
\* the queued batches.
UpdateStepPath(cbSet) ==
  << Lock("C") >>
  \o (IF cbSet
      THEN << Lock("Z"), Unlock("Z"), Lock("P"), Lock("Z"), Unlock("Z"),
              Unlock("P") >>
      ELSE << >>)
  \o << Unlock("C") >>

\* The handlers of the RPC server.
RpcKinds == {"sendupdates", "blockchaininfo", "zmqnotifications",
             "trackedgames", "stop"}

RpcPath(kind) ==
  IF kind = "sendupdates"
  THEN << Lock("R"), Unlock("R"), Lock("C"), Lock("Z"), Unlock("Z"),
          Unlock("C") >>
  ELSE IF kind = "blockchaininfo"
  THEN << Lock("R"), Unlock("R"), Lock("C"), Unlock("C") >>
  ELSE IF kind = "zmqnotifications"
  THEN << Lock("K"), Unlock("K") >>
  ELSE IF kind = "trackedgames"
  THEN << Lock("Z"), Unlock("Z") >>
  ELSE << Lock("K"), Do("stop"), Unlock("K") >>

\* A destructor of Sync that joins the worker with Sync::mut held.
SyncDestructorJoinLocked(started) ==
  IF started
  THEN << Lock("S"), Do("stopSync"), Do("join"), Unlock("S") >>
  ELSE << Lock("S"), Unlock("S") >>

\* Sync::~Sync
SyncDestructor(started) ==
  IF started
  THEN << Lock("S"), Do("stopSync"), Unlock("S"), Do("join"), Lock("S"),
          Unlock("S") >>
  ELSE << Lock("S"), Unlock("S") >>

\* Controller::Run: the constructor of RunData, the wait for Stop, and the
\* destructor of RunData followed by the destructors of its members, all
\* with Controller::mut held except inside cv.wait.
RunPath ==
  << Lock("K"),
     Lock("Z"), Unlock("Z"),
     Do("listen"),
     Lock("B"), Do("callbacksBase"), Unlock("B"),
     Lock("S"), Do("callbacksSync"), Unlock("S"),
     Lock("S"), Lock("C"), Unlock("C"), Do("spawn"), Unlock("S"),
     Unlock("K"), Do("await"), Lock("K"),
     Do("stopListening"),
     Lock("B"), Do("noCallbacksBase"), Unlock("B"),
     Lock("S"), Do("noCallbacksSync"), Unlock("S") >>
  \o SyncDestructor(TRUE)
  \o << Unlock("K") >>

IdleThreads ==
  [todo |-> [t \in ThreadNames |-> << >>],
   held |-> [m \in Mutexes |-> ""],
   listening |-> FALSE, cbBase |-> FALSE, cbSync |-> FALSE,
   worker |-> "none", shouldStop |-> FALSE, syncStop |-> FALSE]

OrderFrame ==
  UNCHANGED << chainVars, zmqVars, batchVars, gateLog, rpcReply, rpcThreads,
               cache, baseDown, updater, heights, sanityChecks,
               maxReorgDepth, baseTip, tipChanges, events, nextBatch,
               syncVars, pendingVars, seenVars >>

Started == threads # NoThreads

Idle(t) == threads.todo[t] = << >>

Begin(t, path) ==
  /\ Idle(t)
  /\ threads' = [threads EXCEPT !.todo[t] = path]
  /\ OrderFrame

\* Controller::Run is called.
ControllerRun ==
  /\ ~Started
  /\ threads' = [IdleThreads EXCEPT !.todo["main"] = RunPath]
  /\ OrderFrame

\* The upstream raises a callback: BaseChain::mut is taken and the
\* Controller is called if it is registered.
CallbackBegin ==
  \E kind \in {"tip", "moves", "queued"} :
    /\ Started
    /\ Begin("cb", << Lock("B"), Do(kind), Unlock("B") >>)

\* The worker comes back from its pause or its wait and takes Sync::mut.
WorkerBegin ==
  /\ Started
  /\ threads.worker = "running"
  /\ Begin("worker", << Lock("S"), Do("loop") >>)

\* A request arrives at the RPC server.
RpcBegin ==
  \E kind \in RpcKinds :
    /\ Started
    /\ threads.listening
    /\ Begin("rpc", RpcPath(kind))

\* What thread t does next.
NextOp(t) == Head(threads.todo[t])

\* The operation can be made now.
CanDo(t, op) ==
  IF op[1] = "lock" THEN threads.held[op[2]] = ""
  ELSE IF op = Do("await") THEN threads.shouldStop
  ELSE IF op = Do("join") THEN threads.worker = "done"
  ELSE TRUE

\* The thread's path after the operation.
Rest(t, op) ==
  LET rest == Tail(threads.todo[t])
  IN IF op = Do("loop")
     THEN IF threads.syncStop
          THEN << Unlock("S"), Do("exit") >>
          ELSE UpdateStepPath(threads.cbSync) \o << Unlock("S") >>
     ELSE IF op \in {Do("tip"), Do("moves"), Do("queued")}
     THEN (IF threads.cbBase THEN CallbackPath(op[2]) ELSE << >>) \o rest
     ELSE rest

\* One operation of thread t.
ThreadStep(t) ==
  /\ Started
  /\ ~Idle(t)
  /\ LET op == NextOp(t)
     IN /\ CanDo(t, op)
        /\ threads' =
             [threads EXCEPT
                !.todo[t] = Rest(t, op),
                !.held = IF op[1] = "lock" THEN [@ EXCEPT ![op[2]] = t]
                         ELSE IF op[1] = "unlock"
                         THEN [@ EXCEPT ![op[2]] = ""]
                         ELSE @,
                !.listening = IF op = Do("listen") THEN TRUE
                              ELSE IF op = Do("stopListening") THEN FALSE
                              ELSE @,
                !.cbBase = IF op = Do("callbacksBase") THEN TRUE
                           ELSE IF op = Do("noCallbacksBase") THEN FALSE
                           ELSE @,
                !.cbSync = IF op = Do("callbacksSync") THEN TRUE
                           ELSE IF op = Do("noCallbacksSync") THEN FALSE
                           ELSE @,
                !.worker = IF op = Do("spawn") THEN "running"
                           ELSE IF op = Do("exit") THEN "done"
                           ELSE @,
                !.shouldStop = IF op = Do("stop") THEN TRUE ELSE @,
                !.syncStop = IF op = Do("stopSync") THEN TRUE ELSE @]
  /\ OrderFrame

NextOrder ==
  \/ ControllerRun
  \/ CallbackBegin
  \/ WorkerBegin
  \/ RpcBegin
  \/ \E t \in ThreadNames : ThreadStep(t)

SpecOrder == InitStore /\ [][NextOrder]_vars

(***************************************************************************)
(* Properties of the Chainstate.                                           *)
(***************************************************************************)

\* C1: after any sequence of ImportTip, SetTip and Prune calls the store
\* passes Chainstate::SanityCheck: every branch is contiguous in height and
\* linked by parent hashes, and the lowest block of a branch other than 0
\* has its parent on another branch, or missing with the block itself at or
\* below the lowest unpruned height.
C1_SanityCheckHolds == SanityCheck(blocks)

\* The stored blocks reached from h by parent links.
RECURSIVE StoredChain(_, _)
StoredChain(bl, h) ==
  IF h \notin DOMAIN bl THEN {} ELSE {h} \cup StoredChain(bl, Parent(h))

\* C8: SetTip returns false and leaves the store as it was when there is no
\* main-chain block yet, or when the block is not stored and its parent is
\* not stored either.
C8_SetTipRejects ==
  [][\A blk \in Hashes :
       ( /\ last'.op = "SetTip"
         /\ last'.arg = blk
         /\ \/ OnBranch(blocks, 0) = {}
            \/ blk \notin DOMAIN blocks /\ Parent(blk) \notin DOMAIN blocks )
       => (~last'.ok /\ blocks' = blocks)]_vars

\* A SetTip call on a store with a main chain has been rejected.
C8_Witness ==
  /\ last.op = "SetTip"
  /\ ~last.ok
  /\ OnBranch(blocks, 0) # {}
  /\ Cardinality(DOMAIN blocks) > 1

\* C9: when SetTip returns true, the block is the highest block of branch
\* 0, branch 0 is the block and its stored ancestors by parent links, the
\* returned old tip is the tip before the call, and every block stored
\* before is still stored.
C9_SetTipMakesMainChain ==
  [][(last'.op = "SetTip" /\ last'.ok) =>
       /\ TipHash(blocks') = last'.arg
       /\ OnBranch(blocks', 0) = StoredChain(blocks', last'.arg)
       /\ last'.oldTip = TipHash(blocks)
       /\ DOMAIN blocks \subseteq DOMAIN blocks']_vars

\* C10: GetForkBranch returns false exactly for a hash that is not stored;
\* its list is empty exactly for a block of branch 0; otherwise the list
\* starts with the requested block, each element's parent is the next
\* element, and the parent of the last element is on branch 0 or not stored.
C10_ForkBranchShape ==
  \A hash \in Hashes \cup {Pregenesis} :
    LET r == GetForkBranch(blocks, hash)
    IN /\ r.ok <=> hash \in DOMAIN blocks
       /\ r.ok =>
            /\ (r.branch = << >>) <=> blocks[hash] = 0
            /\ r.branch # << >> =>
                 /\ r.branch[1] = hash
                 /\ \A i \in 1 .. (Len(r.branch) - 1) :
                      Parent(r.branch[i]) = r.branch[i + 1]
                 /\ LET e == Parent(r.branch[Len(r.branch)])
                    IN e \notin DOMAIN blocks \/ blocks[e] = 0

(***************************************************************************)
(* Properties of the running Controller.                                   *)
(***************************************************************************)

\* The height of the highest block two chains have in common.
ForkPointHeight(a, b) ==
  LET common == Ancestors(a) \cap Ancestors(b)
  IN IF common = {} THEN -1 ELSE SetMax({ Height(h) : h \in common })

\* The upstream main chain forks off the local one below what is stored.
ReorgBeyondPruning ==
  /\ OnBranch(blocks, 0) # {}
  /\ ForkPointHeight(baseTip, TipHash(blocks))
       < GetLowestUnprunedHeight(blocks)

\* The blocks of the upstream main chain that the local chain does not have.
NewChainBlocks == Ancestors(baseTip) \ Ancestors(TipHash(blocks))

\* C2: while the upstream main chain forks off the local main chain below
\* the lowest unpruned height, no step makes a block of the upstream chain
\* the local main-chain tip.
C2_NoCommitBeyondPruning ==
  [][ReorgBeyondPruning => TipHash(blocks') \notin NewChainBlocks]_vars

\* A step in which TipUpdatedFrom pushes block messages.
PushStep ==
  /\ pc \in {"fetch", "import"}
  /\ pc' \in {"notify", "notifyImport"}

RECURSIVE WalkValid(_, _)
WalkValid(at, msgs) ==
  \/ msgs = << >>
  \/ /\ IF Head(msgs).type = "detach" THEN Head(msgs).hash = at
        ELSE Parent(Head(msgs).hash) = at
     /\ WalkValid(WalkEnd(at, << Head(msgs) >>), Tail(msgs))

\* C3: the block messages of a tip update that is not an import continue
\* the subscriber's walk: a detach carries the block the walk stands on and
\* moves it to the parent, an attach carries a child of the block the walk
\* stands on.
C3_ValidWalk ==
  [][(PushStep /\ pushed'.from # EmptyHash)
       => WalkValid(walk, pushed'.msgs)]_vars

DetachCount(msgs) ==
  Cardinality({ i \in DOMAIN msgs : msgs[i].type = "detach" })

\* A tip update has published a detach and an attach.
C3_Witness ==
  /\ pc = "notify"
  /\ pushed.from # EmptyHash
  /\ DetachCount(pushed.msgs) >= 1
  /\ Len(pushed.msgs) > DetachCount(pushed.msgs)

\* What C4 states of a TipUpdatedFrom call with old tip from, made on the
\* store bl and publishing msgs.
DetachThenAttach(bl, from, msgs) ==
  LET detach == GetForkBranch(bl, from).branch
      nd == Len(detach)
      newTip == TipHash(bl)
  IN /\ Len(msgs) >= nd
     /\ \A i \in 1 .. nd : msgs[i] = DetachMsg(detach[i])
     /\ \A i \in (nd + 1) .. Len(msgs) : msgs[i].type = "attach"
     /\ \A i \in (nd + 1) .. (Len(msgs) - 1) :
          Height(msgs[i].hash) < Height(msgs[i + 1].hash)
     /\ IF Len(msgs) > nd THEN msgs[Len(msgs)].hash = newTip
        ELSE nd > 0 /\ Parent(detach[nd]) = newTip

\* C4: every TipUpdatedFrom call with an old tip publishes the detaches of
\* GetForkBranch(oldTip) in that order, then attaches only, in strictly
\* ascending height and ending at the new tip (none when the new tip is
\* the parent of the last detached block).
C4_DetachThenAttach ==
  [][(PushStep /\ pushed'.from # EmptyHash)
       => DetachThenAttach(blocks', pushed'.from, pushed'.msgs)]_vars

\* The same of the calls that return, and every call returns whose store
\* passes SanityCheck.
DetachThenAttachOnReturn ==
  [][(PushStep /\ pushed'.from # EmptyHash) =>
       /\ aborted' = "" =>
            DetachThenAttach(blocks', pushed'.from, pushed'.msgs)
       /\ SanityCheck(blocks') => aborted' = ""]_vars

ForkPointStored ==
  \/ OnBranch(blocks, 0) = {}
  \/ ForkPointHeight(baseTip, TipHash(blocks))
       >= GetLowestUnprunedHeight(blocks)

\* The local tip is the upstream tip and the last step had nothing to do.
Synced == TipHash(blocks) = baseTip /\ ~moreSteps

\* The upstream main chain changes no more.
UpstreamStable == tipChanges = MaxTipChanges

C5_SequenceNumbers ==
  \A cmd \in Topics :
    \A i \in DOMAIN wire[cmd] : wire[cmd][i].seq = i - 1

\* Two threads have sent on one topic.
C5_Witness ==
  \E cmd \in Topics :
    /\ Len(wire[cmd]) >= 2
    /\ \E i, j \in DOMAIN wire[cmd] : wire[cmd][i].by # wire[cmd][j].by

(***************************************************************************)
(* Further properties of the Chainstate.                                   *)
(***************************************************************************)

\* C11: Prune(h) removes exactly the branch-0 blocks of height at most h;
\* every other block stays stored with its branch number, and GetForkBranch
\* of a block on a non-zero branch returns what it returned before.
C11_PruneFrame ==
  [][last'.op = "Prune" =>
       /\ DOMAIN blocks' =
            DOMAIN blocks \ { h \in OnBranch(blocks, 0) :
                                Height(h) <= last'.arg }
       /\ \A h \in DOMAIN blocks' : blocks'[h] = blocks[h]
       /\ \A h \in DOMAIN blocks :
            blocks[h] # 0 =>
              GetForkBranch(blocks', h) = GetForkBranch(blocks, h)]_vars

\* A Prune call has removed the fork point of a stored side branch and
\* left a main-chain block.
C11_Witness ==
  /\ last.op = "Prune"
  /\ OnBranch(blocks, 0) # {}
  /\ \E h \in DOMAIN blocks :
       /\ blocks[h] # 0
       /\ Parent(h) \notin DOMAIN blocks
       /\ Height(h) - 1 <= last.arg
       /\ Height(h) > 0

\* C12: after ImportTip(block) the lowest unpruned height and the tip
\* height are both the height of block, no former main-chain block below
\* that height is stored, and every other block of a non-zero branch is
\* still stored and GetForkBranch returns a list starting with it.
C12_ImportTipPrunes ==
  [][last'.op = "ImportTip" =>
       /\ GetLowestUnprunedHeight(blocks') = Height(last'.arg)
       /\ GetTipHeight(blocks') = Height(last'.arg)
       /\ TipHash(blocks') = last'.arg
       /\ \A h \in OnBranch(blocks, 0) :
            Height(h) < Height(last'.arg) => h \notin DOMAIN blocks'
       /\ \A h \in DOMAIN blocks :
            (blocks[h] # 0 /\ h # last'.arg) =>
              /\ h \in DOMAIN blocks'
              /\ blocks'[h] # 0
              /\ GetForkBranch(blocks', h).ok
              /\ GetForkBranch(blocks', h).branch # << >>
              /\ GetForkBranch(blocks', h).branch[1] = h]_vars

\* A block that was stored on a side branch has been imported, and its
\* child is still stored on a side branch.
C12_Witness ==
  /\ last.op = "ImportTip"
  /\ OnBranch(blocks, 0) = {last.arg}
  /\ \E h \in DOMAIN blocks : blocks[h] # 0 /\ Parent(h) = last.arg
  /\ \E h \in DOMAIN blocks : blocks[h] # 0 /\ Parent(h) \notin DOMAIN blocks

\* What C13 states of one step of the batches.
BatchStepAtomic ==
  /\ \A b \in BatchIds :
       (batchState[b] = "open" /\ batchState'[b] = "reverted") =>
          dbRows' = { r \in dbRows : b \notin writeScope[r] }
  /\ (LiveBatches # {} /\ \A b \in BatchIds :
        batchState'[b] \notin {"open", "committed"})
       => dbRows' = { r \in DOMAIN writeScope' :
                        \A b \in writeScope'[r] : batchState'[b] = "released" }

\* C13 as stated: a batch destroyed without Commit undoes exactly the
\* writes made inside it, and once the outermost batch is gone exactly the
\* writes of committed batches are visible.
C13_BatchAtomic == [][BatchStepAtomic]_vars

\* C13 for batches committed innermost first.
C13_BatchAtomicNested == [][nestedCommits' => BatchStepAtomic]_vars

\* An inner batch was committed, a later inner batch was reverted, and the
\* outer batch was committed and is gone.
C13_Witness ==
  /\ nestedCommits
  /\ LiveBatches = {}
  /\ batchState[1] = "released"
  /\ \E b, c \in BatchIds :
       /\ batchState[b] = "released"
       /\ batchState[c] = "reverted"
       /\ \E r \in dbRows : writeScope[r] = {1, b}
       /\ \E r \in DOMAIN writeScope : writeScope[r] = {1, c} /\ r \notin dbRows

\* The number of branch-0 blocks at a height.
MainAt(bl, h) == Cardinality({ o \in OnBranch(bl, 0) : Height(o) = h })

AtMostOneMain(bl) == \A h \in 0 .. MaxHeight : MainAt(bl, h) <= 1

\* At every height from the lowest unpruned height to the tip height
\* exactly one block is on branch 0.
OneMainToTip(bl) ==
  \A h \in 0 .. MaxHeight :
    (GetLowestUnprunedHeight(bl) <= h /\ h <= GetTipHeight(bl))
      => MainAt(bl, h) = 1

\* The step is a successful SetTip onto a stored side branch (that of the
\* block, or of its parent for a new block) whose fork point is pruned.
StaleSetTip ==
  /\ last'.op = "SetTip"
  /\ last'.ok
  /\ LET at == IF last'.arg \in DOMAIN blocks THEN last'.arg
               ELSE Parent(last'.arg)
         branch == GetForkBranch(blocks, at).branch
     IN /\ branch # << >>
        /\ Parent(branch[Len(branch)]) \notin DOMAIN blocks

BlockPrefixes == {PREFIX_ATTACH, PREFIX_DETACH}

\* Block notifications go to tracked games only, and a SendBlock call that
\* returns has sent one to every tracked game.
BlocksToTrackedGames ==
  /\ \A g \in Games, prefix \in BlockPrefixes :
       wire'[<< prefix, g >>] # wire[<< prefix, g >>] => games[g] > 0
  /\ \A t \in Threads :
       ( /\ zmqThread[t].op \in BlockPrefixes
         /\ zmqThread[t].phase = "next"
         /\ zmqThread'[t].op = "idle" )
       => zmqThread[t].sent = TrackedGames

\* C15 as stated: the tracked depth of a game is the number of its
\* TrackGame calls minus the number of its UntrackGame calls, and block
\* notifications are published for exactly the games of depth above zero.
C15_DepthIsCallBalance ==
  [][/\ \A g \in Games : games'[g] = trackBalance'[g]
     /\ BlocksToTrackedGames]_vars

\* C15 with UntrackGame of a game that is not tracked leaving the depth at
\* zero: TrackGame adds one to the depth, UntrackGame takes one off a depth
\* above zero, nothing else changes it.
C15_DepthCountsTracking ==
  [][/\ \A g \in Games :
          /\ trackBalance'[g] = trackBalance[g] + 1
               => games'[g] = games[g] + 1
          /\ trackBalance'[g] = trackBalance[g] - 1
               => games'[g] = IF games[g] > 0 THEN games[g] - 1 ELSE 0
          /\ trackBalance'[g] = trackBalance[g] => games'[g] = games[g]
          /\ games'[g] >= 0
     /\ BlocksToTrackedGames]_vars

\* A game was untracked while it was not tracked and then tracked, and a
\* block notification has been sent for it.
C15_Witness ==
  \E g \in Games :
    /\ trackBalance[g] = 0
    /\ games[g] = 1
    /\ \E prefix \in BlockPrefixes : wire[<< prefix, g >>] # << >>

\* C16: a batch handed to PendingMoves before the first ChainstateTipChanged
\* call is never published and never queued, whatever calls follow.
C16_EarlyBatchesDropped ==
  /\ SeqToSet(gateLog.wire) \cap gateLog.early = {}
  /\ SeqToSet(pendingsQueue) \cap gateLog.early = {}

\* An early batch was dropped, and later batches were published.
C16_Witness ==
  /\ gateLog.early # {}
  /\ gateLog.wire # << >>
  /\ gateLog.call.op = "ChainstateTipChanged"
  /\ gateLog.call.arg = notificationTip

\* C17: after a TipChanged(hash) call the queue is empty and notificationTip
\* is hash; a batch that was queued when a TipChanged arrived is never
\* published.
C17_TipChangedDrops ==
  /\ gateLog.call.op = "TipChanged" =>
       /\ pendingsQueue = << >>
       /\ notificationTip = gateLog.call.arg
  /\ SeqToSet(gateLog.wire) \cap gateLog.dropped = {}
  /\ SeqToSet(pendingsQueue) \cap gateLog.dropped = {}

\* Queued batches were dropped by a TipChanged, and the chain state has
\* caught up with the notified tip since.
C17_Witness ==
  /\ gateLog.dropped # {}
  /\ chainstateTip = notificationTip
  /\ gateLog.call.op = "ChainstateTipChanged"
  /\ gateLog.arrived = MaxGateBatches

NoDuplicates(seq) ==
  \A i, j \in 1 .. Len(seq) : seq[i] = seq[j] => i = j

\* C18: after the first ChainstateTipChanged, a batch is published on arrival
\* when chainstateTip = notificationTip and queued otherwise; a
\* ChainstateTipChanged(t) with t = notificationTip publishes the queue in
\* order and empties it, one with another t publishes nothing and keeps the
\* queue; no batch is published twice.
C18_GateStep ==
  /\ (gateLog'.arrived # gateLog.arrived /\ chainstateTip # EmptyHash) =>
       IF chainstateTip = notificationTip
       THEN /\ gateLog'.wire = Append(gateLog.wire, gateLog'.arrived)
            /\ pendingsQueue' = pendingsQueue
       ELSE /\ gateLog'.wire = gateLog.wire
            /\ pendingsQueue' = Append(pendingsQueue, gateLog'.arrived)
  /\ (gateLog'.call # gateLog.call
        /\ gateLog'.call.op = "ChainstateTipChanged") =>
       IF gateLog'.call.arg = notificationTip
       THEN /\ gateLog'.wire = gateLog.wire \o pendingsQueue
            /\ pendingsQueue' = << >>
       ELSE /\ gateLog'.wire = gateLog.wire
            /\ pendingsQueue' = pendingsQueue
  /\ NoDuplicates(gateLog'.wire)

RpcStep == rpcReply'.requests # rpcReply.requests

\* The result with which game_sendupdates gives up.
GaveUp(res, from) ==
  /\ {"toblock", "error", "steps"} \subseteq DOMAIN res
  /\ res["toblock"] = from
  /\ res["error"] = TRUE
  /\ res["steps"] = [detach |-> 0, attach |-> 0]

\* C19: game_sendupdates without toblock from a block that is neither in
\* the local chain state nor on the upstream main chain publishes no
\* message and returns
\* toblock = fromBlock, error = true and zero detach and attach steps.
C19_UnknownFromBlock ==
  [][(/\ RpcStep
      /\ rpcReply'.to = EmptyHash
      /\ rpcReply'.from \notin DOMAIN blocks
      /\ rpcReply'.from \notin Ancestors(baseTip))
       => /\ rpcReply'.msgs = << >>
          /\ GaveUp(rpcReply'.res, rpcReply'.from)]_vars

\* C20: game_sendupdates without toblock from a block unknown to the local
\* chain state but on the upstream main chain above the local tip does not
\* abort, publishes no message and returns toblock = fromBlock,
\* error = true and zero detach and attach steps.
C20_FutureFromBlock ==
  [][(/\ RpcStep
      /\ rpcReply'.to = EmptyHash
      /\ rpcReply'.from \notin DOMAIN blocks
      /\ rpcReply'.from \in Ancestors(baseTip)
      /\ Height(rpcReply'.from) > GetTipHeight(blocks))
       => /\ aborted' = ""
          /\ rpcReply'.msgs = << >>
          /\ GaveUp(rpcReply'.res, rpcReply'.from)]_vars

AttachHashes(msgs) ==
  LET RECURSIVE Pick(_)
      Pick(i) == IF i > Len(msgs) THEN << >>
                 ELSE IF msgs[i].type = "attach"
                 THEN << msgs[i].hash >> \o Pick(i + 1)
                 ELSE Pick(i + 1)
  IN Pick(1)

DetachHashes(msgs) ==
  LET RECURSIVE Pick(_)
      Pick(i) == IF i > Len(msgs) THEN << >>
                 ELSE IF msgs[i].type = "detach"
                 THEN << msgs[i].hash >> \o Pick(i + 1)
                 ELSE Pick(i + 1)
  IN Pick(1)

\* The fork point of a call: the parent of the last block detached, or
\* fromBlock when nothing was detached.
ForkPointOf(from, detached) ==
  IF detached = << >> THEN from ELSE Parent(detached[Len(detached)])

SendUpdatesResultOk(bl, call) ==
  LET att == AttachHashes(call.msgs)
      det == DetachHashes(call.msgs)
      forkPoint == ForkPointOf(call.from, det)
  IN /\ call.res["steps"] = [detach |-> Len(det), attach |-> Len(att)]
     /\ att # << >> =>
          /\ Parent(att[1]) = forkPoint
          /\ Height(att[1]) = Height(forkPoint) + 1
          /\ Len(att) <= Min(call.range,
                             GetTipHeight(bl) - Height(forkPoint))
     /\ call.res["toblock"] = IF att # << >> THEN att[Len(att)]
                              ELSE forkPoint

\* C21: for every game_sendupdates call that returns, the step counts are
\* the numbers of detach and attach messages published, the attaches start
\* right above the fork point and number at most min(xayax_block_range,
\* tip height - fork height), and toblock is the last attach or else the
\* fork point.
C21_SendUpdatesResult ==
  [][(RpcStep /\ aborted' = "")
       => SendUpdatesResultOk(blocks, rpcReply')]_vars

\* A call has detached a block and attached as many blocks as the block
\* range allows, fewer than the main chain holds above the fork point.
C21_Witness ==
  /\ rpcReply.requests > 0
  /\ aborted = ""
  /\ DetachCount(rpcReply.msgs) >= 1
  /\ Len(AttachHashes(rpcReply.msgs)) = rpcReply.range
  /\ GetTipHeight(blocks)
       - Height(ForkPointOf(rpcReply.from, DetachHashes(rpcReply.msgs)))
       > rpcReply.range

\* The upstream has moved away from the local chain state: the block it
\* returns for the height above the fork point of from has another parent.
UpstreamMovedAway(bl, tip, from, range) ==
  LET fork == GetForkBranch(bl, from)
      forkPoint == ForkPointOf(from, fork.branch)
      queried == GetBlockRange(tip, Height(forkPoint) + 1,
                               Min(range,
                                   GetTipHeight(bl) - Height(forkPoint)))
  IN /\ fork.ok
     /\ queried # << >>
     /\ Parent(queried[1]) # forkPoint

\* C22: in a call without toblock, when the first block the upstream
\* returns above the fork point does not have the fork point as parent, the
\* call publishes the detaches of the fork branch only and returns
\* toblock = fork point with no attach step.
C22_ChainMismatch ==
  [][(/\ RpcStep
      /\ rpcReply'.to = EmptyHash
      /\ UpstreamMovedAway(blocks, baseTip, rpcReply'.from, rpcReply'.range))
       => LET branch == GetForkBranch(blocks, rpcReply'.from).branch
          IN /\ aborted' = ""
             /\ rpcReply'.msgs = DetachMsgs(branch)
             /\ rpcReply'.res["toblock"] = ForkPointOf(rpcReply'.from, branch)
             /\ rpcReply'.res["steps"] =
                  [detach |-> Len(branch), attach |-> 0]]_vars

\* A call has detached a block and then met an upstream chain that does not
\* build on the fork point.
C22_Witness ==
  /\ rpcReply.requests > 0
  /\ rpcReply.to = EmptyHash
  /\ UpstreamMovedAway(blocks, baseTip, rpcReply.from, rpcReply.range)
  /\ DetachCount(rpcReply.msgs) >= 1
  /\ rpcReply.res # NoJson

\* C23: game_sendupdates with a toblock on the local main chain does not
\* abort; it attaches nothing when toblock is not above the fork point,
\* attaches no block above toblock otherwise, takes at most
\* xayax_block_range steps after the detaches of the fork branch, and
\* returns the block it reached.
C23_ExplicitToBlock ==
  [][(/\ RpcStep
      /\ rpcReply'.to \in DOMAIN blocks
      /\ blocks[rpcReply'.to] = 0
      /\ GetForkBranch(blocks, rpcReply'.from).ok)
       => LET call == rpcReply'
              att == AttachHashes(call.msgs)
              det == DetachHashes(call.msgs)
              branch == GetForkBranch(blocks, call.from).branch
              forkPoint == ForkPointOf(call.from, branch)
          IN /\ aborted' = ""
             /\ SubSeq(det, 1, Len(branch)) = branch
             /\ Height(call.to) <= Height(forkPoint) => att = << >>
             /\ \A i \in DOMAIN att : Height(att[i]) <= Height(call.to)
             /\ Len(det) - Len(branch) + Len(att) <= call.range
             /\ call.res["toblock"] =
                  IF att # << >> THEN att[Len(att)]
                  ELSE ForkPointOf(call.from, det)]_vars

\* C24: the reqtokens returned by game_sendupdates calls differ from call
\* to call, also when the calls overlap; every block message of a call
\* carries the token the call returns, and the block messages of tip
\* updates carry no reqtoken.
C24_RequestTokens ==
  LET sent == rpcThreads.wire
      returned == rpcThreads.returned
  IN /\ \A i, j \in DOMAIN returned :
          returned[i].reqtoken = returned[j].reqtoken => i = j
     /\ \A i \in DOMAIN sent :
          IF sent[i].call = 0
          THEN "reqtoken" \notin DOMAIN sent[i].json
          ELSE /\ "reqtoken" \in DOMAIN sent[i].json
               /\ \A j \in DOMAIN returned :
                    (returned[j].call = sent[i].call)
                      <=> (returned[j].reqtoken = sent[i].json["reqtoken"])

\* Two calls that overlapped have returned, both after sending blocks, and
\* a tip update has sent blocks too.
C24_Witness ==
  /\ Len(rpcThreads.returned) >= 2
  /\ rpcThreads.returned[1].call > rpcThreads.returned[2].call
  /\ \E i, j, k \in DOMAIN rpcThreads.wire :
       /\ rpcThreads.wire[i].call = 1
       /\ rpcThreads.wire[j].call = 2
       /\ rpcThreads.wire[k].call = 0

CacheCallStep == cache'.last # cache.last

HoldsRange(data, start, count) ==
  \A h \in start .. start + count - 1 : h \in DOMAIN data

\* What a GetBlockRange call may do on a hit: no upstream call.
RangeCallOk(old, new, hit) ==
  LET call == new.last
  IN IF call.start + call.count + old.minDepth > old.lastTipHeight + 1
     THEN /\ call.baseCalls = 1
          /\ call.reads = 0
          /\ call.writes = 0
          /\ new.data = old.data
     ELSE IF hit
     THEN /\ call.baseCalls = 0
          /\ new.data = old.data
     ELSE /\ call.baseCalls = 1
          /\ call.writes = 1
          /\ \A i \in DOMAIN call.direct :
               Height(call.direct[i]) \in DOMAIN new.data

\* C25 as stated: GetTipHeight makes one upstream call; GetBlockRange makes
\* one upstream call and leaves the store alone when the range is close to
\* the tip, makes no upstream call when the store holds the whole range,
\* and otherwise makes one upstream call and stores the result.
C25_UpstreamCalls ==
  [][CacheCallStep =>
       /\ cache'.last.op = "GetTipHeight" => cache'.last.baseCalls = 1
       /\ cache'.last.op = "GetBlockRange" =>
            RangeCallOk(cache, cache',
                        HoldsRange(cache.data, cache'.last.start,
                                   cache'.last.count))]_vars

\* C25 for ranges of at least one block; a call for no block makes at most
\* one upstream call and returns nothing.
C25_UpstreamCallsNonEmpty ==
  [][CacheCallStep =>
       /\ cache'.last.op = "GetTipHeight" => cache'.last.baseCalls = 1
       /\ (cache'.last.op = "GetBlockRange" /\ cache'.last.count >= 1) =>
            RangeCallOk(cache, cache',
                        HoldsRange(cache.data, cache'.last.start,
                                   cache'.last.count))
       /\ (cache'.last.op = "GetBlockRange" /\ cache'.last.count = 0) =>
            /\ cache'.last.baseCalls <= 1
            /\ cache'.last.res = << >>
            /\ cache'.data = cache.data]_vars

\* A range of two blocks has been served from the store after the upstream
\* moved on.
C25_Witness ==
  /\ cache.last.op = "GetBlockRange"
  /\ cache.last.count = 2
  /\ cache.last.baseCalls = 0
  /\ cache.last.reads = 1
  /\ cache.lastTipHeight < Height(baseTip)

\* C26: after Store(blocks), GetRange at each stored height returns the
\* block just stored there, and storing the same blocks again changes
\* nothing, for the in-memory and for the MySQL storage.
C26_StoreReplaces ==
  [][(CacheCallStep /\ cache'.last.op = "Store") =>
       LET blks == cache'.last.res
       IN /\ \A i \in DOMAIN blks :
               GetRange(cache.kind, cache'.data, Height(blks[i]), 1)
                 = << blks[i] >>
          /\ Store(cache.kind, cache'.data, blks) = cache'.data]_vars

\* C27: provided upstream blocks that have been minDepth deep stay on the
\* upstream main chain, every GetBlockRange on the cache returns what the
\* upstream returns for the same range at that moment.
C27_Transparent ==
  [][(CacheCallStep /\ cache'.last.op = "GetBlockRange")
       => cache'.last.res = cache'.last.direct]_vars

\* A block has been served from the store after the upstream went back to
\* a lower tip.
C27_Witness ==
  /\ cache.last.op = "GetBlockRange"
  /\ cache.last.count >= 1
  /\ cache.last.baseCalls = 0
  /\ cache.last.res # << >>
  /\ cache.minDepth = 1
  /\ Height(baseTip) < cache.lastTipHeight

(***************************************************************************)
(* Properties of the Sync worker under upstream failures and of mutChain.  *)
(***************************************************************************)

\* The worker is about to return from a pull call of UpdateStep.
AtPullCall == pc \in {"idle", "fetch", "import"}

\* What a step leaves alone when its pull call throws, and how the worker
\* loop goes on: whatever happens while the upstream throws and the worker
\* is at a pull call leaves the store and the rows of its batch alone and
\* ends no process; the step ends released and reports no more steps, and
\* the tip it leaves is the one the last TipUpdatedFrom call was made for.
FailedStepHarmless ==
  baseDown.down /\ AtPullCall /\ Running
    => /\ blocks' = blocks
       /\ dbRows' = dbRows
       /\ Running'
       /\ << pc', moreSteps', baseDown'.caught >>
             # << pc, moreSteps, baseDown.caught >>
            => /\ pc' = "idle"
               /\ ~moreSteps'
               /\ mutChain' = ""
               /\ chainstateTip' # EmptyHash
                    => TipHash(blocks') = chainstateTip'

\* The upstream will throw no more.
AnswersForGood == BaseAnswers /\ baseDown.outages = MaxOutages

C29_NoLockAcrossPull ==
  Running /\ pc \in {"fetch", "import"} => mutChain # "sync"

\* A game_sendupdates call without toblock returns.
RpcReturns == rpcReply' # rpcReply /\ rpcReply'.to = EmptyHash

\* C30: the worker holds mutChain from the start of an update step, through
\* its SetTip or ImportTip writes, the block notifications and the Prune of
\* TipUpdatedFrom, until the step returns; the store changes only in steps
\* of the worker that holds it, and a game_sendupdates call runs
\* PushZmqBlocks only between two steps, when the tip it reads is the one
\* whose notifications have been published.
C30_ChainMutex ==
  /\ [](Running => (pc # "idle" <=> mutChain = "sync"))
  /\ [][/\ blocks' # blocks => mutChain = "sync" \/ mutChain' = "sync"
        /\ RpcReturns
             => /\ pc = "idle"
                /\ mutChain = ""
                /\ blocks' = blocks
                /\ chainstateTip # EmptyHash
                     => TipHash(blocks) = chainstateTip]_vars

\* A game_sendupdates call has been answered after the worker has committed
\* and notified a tip, and the worker is inside its next step.
C30_Witness ==
  /\ rpcReply.requests > 0
  /\ rpcReply.to = EmptyHash
  /\ rpcReply.msgs # << >>
  /\ chainstateTip # EmptyHash
  /\ pc = "fetch"
  /\ mutChain = "sync"
  /\ aborted = ""

(***************************************************************************)
(* Properties of the TipUpdatedFrom calls made by Sync.                    *)
(***************************************************************************)

\* Sync calls TipUpdatedFrom in this step.
CallbackMade ==
  /\ pc \notin {"notify", "notifyImport"}
  /\ pc' \in {"notify", "notifyImport"}

Linked(s) == \A i \in DOMAIN s : i > 1 => Parent(s[i]) = s[i - 1]

\* C31: the attaches of every TipUpdatedFrom call are non-empty and linked
\* by parent, end at the main-chain tip of the store at the call, and a
\* non-empty oldTip is the tip the previous callback left.
C31_CallbackArguments ==
  [][CallbackMade
       => /\ pushed'.attaches # << >>
          /\ Linked(pushed'.attaches)
          /\ pushed'.attaches[Len(pushed'.attaches)] = TipHash(blocks')
          /\ pushed'.from # EmptyHash
               => /\ pushed'.from = TipHash(blocks)
                  /\ chainstateTip # EmptyHash
                       => pushed'.from = chainstateTip]_vars

\* The block whose child the attaches must hold, as the test callback
\* computes it from GetForkBranch (oldTip).
ForkParent(bl, oldTip) ==
  LET detaches == GetForkBranch(bl, oldTip).branch
  IN IF detaches = << >> THEN oldTip
     ELSE Parent(detaches[Len(detaches)])

\* C32: in every TipUpdatedFrom call with an oldTip the attaches hold a
\* child of the fork point, and no CHECK of PushZmqBlocks fails.
C32_ForkPointCovered ==
  [][CallbackMade /\ pushed'.from # EmptyHash
       => /\ GetForkBranch(blocks', pushed'.from).ok
          /\ \E i \in DOMAIN pushed'.attaches :
               Parent(pushed'.attaches[i])
                 = ForkParent(blocks', pushed'.from)
          /\ aborted' = ""]_vars

\* C33: TipUpdatedFrom is called only by a step that changes the
\* main-chain tip; a step that gets the local tip alone and a step of the
\* fork-point search that fails to attach call nothing.
C33_NoSuperfluousCalls ==
  [][/\ CallbackMade => TipHash(blocks') # TipHash(blocks)
     /\ pc = "fetch" /\ TipHash(blocks') = TipHash(blocks)
          => ~CallbackMade /\ pushed' = pushed /\ walk' = walk]_vars

\* A callback has re-activated a stored fork branch: its attaches hold
\* blocks of that branch before the blocks queried, and the old tip has
\* left the main chain.
C31_Witness ==
  /\ pc = "notify"
  /\ aborted = ""
  /\ pushed.from # EmptyHash
  /\ Len(pushed.attaches) > step.size
  /\ blocks[pushed.from] # 0

\* After a callback, a step has asked for blocks from the local tip on, got
\* that tip alone and returned without a callback.
C33_Witness ==
  /\ pc = "idle"
  /\ aborted = ""
  /\ step.origin = "attach"
  /\ step.size = 1
  /\ ~moreSteps
  /\ nextStartHeight = -1
  /\ chainstateTip = TipHash(blocks)
  /\ pushed.attaches # << >>

(***************************************************************************)
(* Properties of the worker thread and the destructor of Sync.             *)
(***************************************************************************)

\* C34: once Sync::~Sync has been called, whatever the worker is doing,
\* the worker leaves its loop and the destructor's join returns; after
\* shouldStop is set the worker begins no update step.
C34_DestructorTerminates ==
  /\ updater.dtor = "lock"
       ~> updater.dtor = "done" /\ updater.worker = "done"
  /\ [][updater.shouldStop => updater'.worker # "step"]_vars

\* The destructor has returned after it was called while the worker was
\* waiting on the condition variable after some update steps.
C34_Witness ==
  /\ updater.dtor = "done"
  /\ updater.worker = "done"
  /\ updater.shouldStop
  /\ updater.calledAt = "wait"
  /\ updater.steps > 1
  /\ updater.mut = ""

\* The step of thread t in which the first part of a message fails to be
\* sent and SendMessage throws.
SendThrows(t) ==
  /\ zmqThread[t].phase = "send"
  /\ zmqThread'[t].op = "idle"

\* C35: ZmqPub increments the sequence number of a command only after all
\* parts of the message have been sent.  When sending the first part fails,
\* the call ends with an error, nothing is published, the stored number is
\* unchanged, and no published message carries that number yet; every
\* message that is published carries the number stored at that time, so the
\* next message published for the command carries the number the failed one
\* would have had.
C35_CounterAfterSend ==
  [][ /\ \A t \in Threads :
           SendThrows(t) =>
             LET cmd == << zmqThread[t].op, zmqThread[t].cur >>
             IN /\ nextSeq' = nextSeq
                /\ wire' = wire
                /\ zmqMut' # t
                /\ nextSeq[cmd] = zmqThread[t].seq
                /\ \A i \in DOMAIN wire[cmd] :
                     wire[cmd][i].seq # zmqThread[t].seq
      /\ \A cmd \in Topics :
           /\ wire'[cmd] # wire[cmd] =>
                /\ Len(wire'[cmd]) = Len(wire[cmd]) + 1
                /\ SubSeq(wire'[cmd], 1, Len(wire[cmd])) = wire[cmd]
                /\ wire'[cmd][Len(wire'[cmd])].seq = nextSeq[cmd]
                /\ nextSeq'[cmd] = nextSeq[cmd]
           /\ nextSeq'[cmd] # nextSeq[cmd] =>
                /\ nextSeq'[cmd] = nextSeq[cmd] + 1
                /\ wire[cmd] # << >>
                /\ wire[cmd][Len(wire[cmd])].seq = nextSeq[cmd]
                /\ wire' = wire
    ]_vars

\* A send for a command failed, and a message published afterwards for
\* that command carries the number of the failed one.
C35_Witness ==
  \E t \in Threads :
    /\ zmqThread[t].threw # << >>
    /\ LET cmd == zmqThread[t].threw[1]
           seq == zmqThread[t].threw[2]
       IN /\ seq > 0
          /\ \E i \in DOMAIN wire[cmd] : wire[cmd][i].seq = seq

\* The step of UpdateStep that has attached as many blocks as it asked for
\* and decides how to go on, after the callback if there was one.
FullBatchDone ==
  /\ aborted' = ""
  /\ step'.size > 0
  /\ step'.size >= step'.num
  /\ \/ pc = "notify" /\ pc' # "notify"
     \/ pc = "fetch" /\ pc' \in {"idle", "import"}

\* The step of ImportNewTip that re-imports the block of the upstream at
\* the height fixed at the start of the update step.
Reimported ==
  /\ pc = "import"
  /\ step.origin = "attach"
  /\ pc' = "notifyImport"

\* Every side-branch block is kept by the step, on its branch unless it is
\* the block imported.
SideBranchesKept ==
  \A h \in DOMAIN blocks :
    blocks[h] # 0 =>
      /\ h \in DOMAIN blocks'
      /\ h # step'.cbTip => blocks'[h] = blocks[h]

AfterReimport ==
  Reimported =>
    /\ GetLowestUnprunedHeight(blocks') = step.genesisHeight
    /\ GetTipHeight(blocks') = step.genesisHeight
    /\ step.genesisHeight = Max(0, step.baseHeight - maxReorgDepth)
    /\ SideBranchesKept

\* C36 as stated: after a full batch the re-import is started exactly when
\* the highest height attached plus maxReorgDepth is at most the upstream
\* tip height read at the start of the step, and after the re-import the
\* lowest unpruned height and the tip height are the anchor height and the
\* side branches are kept.
C36_FastSyncAtDepth ==
  [][ /\ FullBatchDone =>
           (pc' = "import"
              <=> step'.backHeight + maxReorgDepth <= step'.baseHeight)
      /\ AfterReimport
    ]_vars

\* C36: after a full batch the re-import is started exactly when the
\* highest height attached is below the anchor height, that is more than
\* maxReorgDepth behind the upstream tip height read at the start of the
\* step; the re-import happens when the upstream then returns the block at
\* the anchor height, and after it the lowest unpruned height and the tip
\* height are the anchor height and the side branches are kept.
C36_FastSyncBeyondDepth ==
  [][ /\ FullBatchDone =>
           /\ pc' = "import" <=> step'.backHeight < step'.genesisHeight
           /\ pc' = "import"
                <=> step'.backHeight + maxReorgDepth < step'.baseHeight
      /\ pc = "import" /\ pc' # "import" /\ step.origin = "attach" =>
           (Reimported
              <=> GetBlockRange(baseTip, step.genesisHeight, 1) # << >>)
      /\ AfterReimport
    ]_vars

\* A re-import after a full batch has been made and notified, with a side
\* branch in the store.
C36_Witness ==
  /\ pc = "notifyImport"
  /\ step.origin = "attach"
  /\ step.size >= step.num
  /\ GetTipHeight(blocks) = step.genesisHeight
  /\ GetLowestUnprunedHeight(blocks) = step.genesisHeight
  /\ \E h \in DOMAIN blocks : blocks[h] # 0

\* The attach messages of the reply of the call that just returned.
ReplyAttaches ==
  { rpcReply'.msgs[i].hash :
      i \in { j \in DOMAIN rpcReply'.msgs :
                rpcReply'.msgs[j].type = "attach" } }

ReplyDetaches ==
  SelectSeq(rpcReply'.msgs, LAMBDA m : m.type = "detach")

\* The fork point of the call: the parent of the last block detached, or
\* the from block.
ReplyForkPoint ==
  IF ReplyDetaches = << >> THEN rpcReply'.from
  ELSE Parent(ReplyDetaches[Len(ReplyDetaches)].hash)

\* The blocks the upstream returns to the call: the main-chain blocks above
\* the fork point, as many as the block range and the local tip height
\* allow.
UpstreamAnswer ==
  LET forkHeight == Height(ReplyForkPoint)
  IN GetBlockRange(baseTip, forkHeight + 1,
                   Min(rpcReply'.range, GetTipHeight(blocks) - forkHeight))

\* A block at or above the lowest unpruned height that is not stored.
NotStored(h) ==
  /\ Height(h) >= GetLowestUnprunedHeight(blocks)
  /\ h \notin DOMAIN blocks

\* C37: a game_sendupdates call that returns publishes no attach for a
\* block at or above the lowest unpruned height that is not stored in the
\* local chain state; when the blocks the upstream returns to it include
\* such a block, the call publishes no attach and returns the fork point as
\* toblock.
C37_AttachesStoredLocally ==
  [][ RpcStep /\ aborted' = "" =>
        /\ \A h \in ReplyAttaches : ~NotStored(h)
        /\ ( /\ UpstreamAnswer # << >>
             /\ Parent(UpstreamAnswer[1]) = ReplyForkPoint
             /\ \E i \in DOMAIN UpstreamAnswer :
                  NotStored(UpstreamAnswer[i]) )
           => /\ ReplyAttaches = {}
              /\ rpcReply'.res.steps.attach = 0
              /\ rpcReply'.res.toblock = ReplyForkPoint
    ]_vars

\* The step of UpdateStep whose first block cannot be attached (or that got
\* no block): the search for the fork point goes on or gives up.
SearchStep ==
  /\ pc = "fetch"
  /\ nextStartHeight' # -1
  /\ << pc', aborted', nextStartHeight' >> # << pc, aborted, nextStartHeight >>

\* The step of UpdateStep whose first block is attached by SetTip.
SearchEnds ==
  /\ pc = "fetch"
  /\ pc' = "idle"
  /\ nextStartHeight' = -1
  /\ aborted' = ""
  /\ heights'.tip >= step.startHeight

ReorgBeyond == aborted = "Reorg beyond pruning depth"

\* C38: in a search for the fork point every step whose first block cannot
\* be attached sets nextStartHeight below the start height it used, which
\* is the previous nextStartHeight, and never below the lowest unpruned
\* height, or else fails with 'Reorg beyond pruning depth'; nextStartHeight
\* is reset to -1 only by a step whose first block was attached by SetTip;
\* and every search ends, in one of these two ways, also when the start
\* height minus the number of blocks is negative.
C38_SearchTerminates ==
  /\ [][ /\ SearchStep =>
              /\ heights' = heights
              /\ nextStartHeight' >= heights.lowest
              /\ nextStartHeight' >= 0
              /\ nextStartHeight # -1 => step.startHeight = nextStartHeight
              /\ IF aborted' = ""
                 THEN /\ nextStartHeight' < step.startHeight
                      /\ pc' = "idle"
                      /\ moreSteps'
                 ELSE /\ aborted' = "Reorg beyond pruning depth"
                      /\ nextStartHeight' >= step.startHeight
         /\ nextStartHeight # -1 /\ nextStartHeight' = -1 => SearchEnds
       ]_vars
  /\ (nextStartHeight # -1 /\ aborted = "")
       ~> (nextStartHeight = -1 \/ ReorgBeyond)

\* A search for the fork point has taken three steps and is above the
\* lowest unpruned height, and its next step asks for more blocks than
\* there are below its start height.
C38_Witness ==
  /\ pc = "fetch"
  /\ aborted = ""
  /\ nextStartHeight # -1
  /\ nextStartHeight > heights.lowest
  /\ step.startHeight = nextStartHeight
  /\ step.startHeight - step.num < 0
  /\ numBlocks >= 8

\* A search has ended with the first block attached after more than one
\* step.
C38_WitnessEnded ==
  /\ pc = "idle"
  /\ aborted = ""
  /\ nextStartHeight = -1
  /\ step.startHeight < heights.tip
  /\ step.startHeight - step.num < 0
  /\ numBlocks >= 16

WaitsFor(t) ==
  IF ~Started \/ Idle(t) THEN {}
  ELSE LET op == NextOp(t)
       IN IF op[1] = "lock" /\ threads.held[op[2]] # ""
          THEN {threads.held[op[2]]}
          ELSE IF op = Do("join") /\ threads.worker # "done"
          THEN {"worker"}
          ELSE {}

\* The threads reached from t by following the waits, in at most as many
\* steps as there are threads.
WaitChain(t) ==
  LET w1 == WaitsFor(t)
      w2 == w1 \cup UNION { WaitsFor(u) : u \in w1 }
      w3 == w2 \cup UNION { WaitsFor(u) : u \in w2 }
  IN w3 \cup UNION { WaitsFor(u) : u \in w3 }

C40_WitnessDone ==
  /\ Started
  /\ threads.worker = "done"
  /\ Idle("main")
  /\ threads.held = [m \in Mutexes |-> ""]

====
